---- MODULE Spec2Model ----
(***************************************************************************)
(* The interactive session engine of bitpop: the App component (the mode   *)
(* state machine, its timers, its passive effects and its shutdown paths)  *)
(* together with the vault agent it drives.                                *)
(*                                                                         *)
(* Scheduling model.  React commits a state update and runs the passive    *)
(* effects (useEffect bodies and, on unmount, their cleanups) afterwards.  *)
(* Between the commit and the effects the event loop may deliver a signal  *)
(* or an expired timer; pendingEffects holds the effects a commit has      *)
(* queued and FlushPassiveEffects runs them.  React flushes the pending    *)
(* effects before it renders the next update, so input handlers and the    *)
(* callbacks that only call setState wait for the flush.  exit() of ink    *)
(* unmounts the tree (state updates become no-ops, input stops) and the    *)
(* process ends when no timer is left; process.exit(0) ends it at once.    *)
(***************************************************************************)
EXTENDS Integers, Sequences, FiniteSets, TLC

VARIABLES
    state,          \* AppState: mode, previousMode, session, items, selectedIndex, selectedItem, error, config, message
                    \* (message: Null, or Displayed while a message is on screen)
    shown,          \* the text showMessage put on screen in the step just taken, or Null
    query,          \* useSearch: the query text, a sequence of characters
    sortMode,       \* useSearch: "default" | "date"
    sessionRef,     \* sessionRef.current
    messageTimer,   \* messageTimerRef.current is a live timer
    deferred,       \* the pending setTimeout(..., 50) callbacks of the handlers, oldest first
    exitingTimer,   \* the 50 ms timer of the exiting effect is pending
    autoClose,      \* the auto-close timer: [armed, left] (left: hours until it is due)
    signalsOn,      \* handleSignal is registered for SIGINT / SIGTERM / SIGHUP
    proc,           \* "mounting" | "running" | "unmounted" | "terminated"
    pendingEffects, \* passive effects queued by the last commits
    vault,          \* vault agent: the items it stores
    agent,          \* vault agent: "locked" | "unlocked"
    mutations,      \* how many create / edit / delete requests the agent has carried out
    lockCalls,      \* the session arguments of the lockVault calls made so far
    clock,          \* [counted, idle]: idle is the hours elapsed since the most recent
                    \* keystroke (capped); counted = FALSE leaves the hours uncounted, and
                    \* the auto-close timer may then fire at any moment after it is armed
    lastEvent,      \* the step just taken: [kind, key, calls, out] (calls: the commands it
                    \* ran; out: what the agent answered to a deferred callback)
    clip,           \* the system clipboard and the clear timers of the clipboard module:
                    \* [watched, text, timers, age]; timers: the live setTimeout timers,
                    \* each [left, ref] (left: seconds until due, ref: clipboardClearTimer
                    \* holds it); age: seconds since the last successful copy (capped);
                    \* watched = FALSE leaves the clipboard out of the model
    ed,             \* a call of openInEditor: [pc, content, file, status, faults, result];
                    \* pc: "idle" (no call) | "call" | "write" | "spawn" | "read" |
                    \* "returned"; content: the text to edit; file: the temporary file,
                    \* [exists, text]; status: the exit status of the editor; faults: the
                    \* file system calls that have thrown; result: the EditorResult
    util            \* a call of a utility function outside the application (itemToYaml
                    \* and yamlToItem, loadConfig, the search): its position pc, its
                    \* argument and what it has computed so far; [pc |-> "idle"] when
                    \* none is under way

\* everything but the calls of the utilities
hostVars == <<state, shown, query, sortMode, sessionRef, messageTimer, deferred,
              exitingTimer, autoClose, signalsOn, proc, pendingEffects, vault, agent,
              mutations, lockCalls, clock, lastEvent, clip>>

vars == <<state, shown, query, sortMode, sessionRef, messageTimer, deferred, exitingTimer,
          autoClose, signalsOn, proc, pendingEffects, vault, agent, mutations, lockCalls,
          clock, lastEvent, clip, ed, util>>

appVars == <<state, shown, query, sortMode>>
uiVars == <<state, query, sortMode>>
agentVars == <<vault, agent, mutations, lockCalls>>
timerVars == <<messageTimer, deferred, exitingTimer, autoClose>>

---------------------------------------------------------------------------
(* Bounds of the model *)

\* how many create / edit / delete requests the agent may carry out in a run
MaxMutations == 1

---------------------------------------------------------------------------
(* Values *)

Null == "null"
\* state.message while a text is displayed; the text itself is kept in shown
Displayed == "displayed"
Token == "tok"

NoItem == [id |-> 0, type |-> "None", name |-> <<>>, rev |-> 0]

Login(i, n, r) == [id |-> i, type |-> "Login", name |-> n, rev |-> r]
Card(i, n, r) == [id |-> i, type |-> "Card", name |-> n, rev |-> r]

\* the vault as the agent holds it when the program starts
InitialVault == << Login(1, <<"b">>, 1), Card(2, <<"a", "b">>, 2) >>

\* the query texts a run may type or load from a shortcut; "d" is what the
\* search input under a detail view without item receives from the delete key
Queries == { <<>>, <<"a">>, <<"z">>, <<"d">> }

\* the names the user may give an item in the editor
EditorNames == { <<"a">> }

QueryChars == {"a", "z"}

\* config.yaml as loadConfig returns it: the file at startup and the file after an edit
StartConfig == [auto_close_hours |-> 2, max_visible_entries |-> 2,
                clipboard_clear_seconds |-> 2,
                shortcuts |-> << [key |-> "a", search |-> <<"a">>] >>]
EditedConfig == [auto_close_hours |-> 1, max_visible_entries |-> 4,
                 clipboard_clear_seconds |-> 0,
                 shortcuts |-> << [key |-> "b", search |-> <<"z">>] >>]
Configs == {StartConfig, EditedConfig}

Min(a, b) == IF a < b THEN a ELSE b
Max(a, b) == IF a > b THEN a ELSE b

Range(s) == { s[i] : i \in 1..Len(s) }

---------------------------------------------------------------------------
(* useSearch: the ranked results of a query over the items *)

\* localeCompare on the one-letter alphabet of the model, lexicographic on sequences
CharRank(c) == CASE c = " " -> 0 [] c = "a" -> 1 [] c = "b" -> 2 [] OTHER -> 26

RECURSIVE NameLess(_, _)
NameLess(a, b) ==
    IF b = <<>> THEN FALSE
    ELSE IF a = <<>> THEN TRUE
    ELSE IF CharRank(Head(a)) # CharRank(Head(b)) THEN CharRank(Head(a)) < CharRank(Head(b))
    ELSE NameLess(Tail(a), Tail(b))

ByName(a, b) == NameLess(a.name, b.name)
\* dateB.localeCompare(dateA): newest first
ByDate(a, b) == a.rev > b.rev

\* `${item.name} ${uris}`.toLowerCase(); the items of the model carry no URIs
SearchText(item) == item.name \o <<" ">>

RECURSIVE IsSubsequence(_, _)
IsSubsequence(q, t) ==
    IF q = <<>> THEN TRUE
    ELSE IF t = <<>> THEN FALSE
    ELSE IF Head(q) = Head(t) THEN IsSubsequence(Tail(q), Tail(t))
    ELSE IsSubsequence(q, Tail(t))

IsPrefix(q, t) == Len(q) <= Len(t) /\ SubSeq(t, 1, Len(q)) = q

\* the fuzzy search built by createFuzzySearch: a lower score is the better match
FuzzyScore(q, t) == IF IsPrefix(q, t) THEN 1 ELSE 2
ByScore(q, a, b) == FuzzyScore(q, SearchText(a)) < FuzzyScore(q, SearchText(b))

\* the comparator of one sort call
Less(order, q, a, b) ==
    CASE order = "name" -> ByName(a, b)
      [] order = "date" -> ByDate(a, b)
      [] OTHER -> ByScore(q, a, b)

\* Array.prototype.sort is stable: each element goes after its equals
RECURSIVE Insert(_, _, _, _)
Insert(x, s, order, q) ==
    IF s = <<>> THEN <<x>>
    ELSE IF Less(order, q, x, Head(s)) THEN <<x>> \o s
    ELSE <<Head(s)>> \o Insert(x, Tail(s), order, q)

RECURSIVE Sort(_, _, _)
Sort(s, order, q) ==
    IF s = <<>> THEN <<>>
    ELSE Insert(s[Len(s)], Sort(SubSeq(s, 1, Len(s) - 1), order, q), order, q)

RECURSIVE Matches(_, _)
Matches(s, q) ==
    IF s = <<>> THEN <<>>
    ELSE IF IsSubsequence(q, SearchText(Head(s)))
         THEN <<Head(s)>> \o Matches(Tail(s), q)
         ELSE Matches(Tail(s), q)

\* fault variant: only the empty query counts as no query
IsEmpty(q) == q = <<>>
\* query.trim() is empty
IsBlank(q) == \A i \in 1..Len(q) : q[i] = " "

Results(items, q, sort) ==
    IF IsBlank(q)
    THEN IF sort = "date" THEN Sort(items, "date", q) ELSE Sort(items, "name", q)
    ELSE LET ranked == Sort(Matches(items, q), "score", q)
         IN IF sort = "date" THEN Sort(ranked, "date", q) ELSE ranked

results == Results(state.items, query, sortMode)

---------------------------------------------------------------------------
(* The state after construction: useState initializer, useSearch, the refs *)

InitState ==
    /\ state = [mode |-> "password", previousMode |-> Null, session |-> Null,
                items |-> <<>>, selectedIndex |-> 0, selectedItem |-> NoItem,
                error |-> Null, config |-> StartConfig, message |-> Null]
    /\ shown = Null
    /\ query = <<>>
    /\ sortMode = "default"
    /\ sessionRef = Null
    /\ messageTimer = FALSE
    /\ deferred = <<>>
    /\ exitingTimer = FALSE
    /\ autoClose = [armed |-> FALSE, left |-> 0]
    /\ signalsOn = FALSE
    /\ proc = "mounting"
    /\ pendingEffects = {}
    /\ vault = InitialVault
    /\ agent = "locked"
    /\ mutations = 0
    /\ lockCalls = <<>>
    /\ lastEvent = [kind |-> "init", key |-> Null, calls |-> {}, out |-> {}]

\* timeoutMs of the auto-close timer, in hours
TimeoutHours(config) == IF clock.counted THEN config.auto_close_hours ELSE 0

\* The clipboard module: copyToClipboard, scheduleClipboardClear

\* the longest clipboard-clear delay of the configurations
ClipDelay == StartConfig.clipboard_clear_seconds

\* copyToClipboard(text) that the clipboard tool carried out
copyToClipboard(cl, text) ==
    IF cl.watched THEN [cl EXCEPT !.text = text, !.age = 0] ELSE cl

\* the timers clearTimeout(clipboardClearTimer) leaves alive
Unreferenced(t) == ~t.ref

\* scheduleClipboardClear(seconds): clearTimeout of the pending timer, then a new
\* timer if seconds > 0
scheduleClipboardClear(cl, seconds) ==
    IF ~cl.watched THEN cl
    ELSE LET kept == SelectSeq(cl.timers, Unreferenced)
         IN [cl EXCEPT !.timers = IF seconds > 0
                                  THEN Append(kept, [left |-> seconds, ref |-> TRUE])
                                  ELSE kept]

\* the clipboard holds something else than a secret of the vault, no timer is live
Clipboard(watched) == [watched |-> watched, text |-> "other", timers |-> <<>>, age |-> 0]

\* The editor round trip: openInEditor

\* the temporary file: absent, or present with a text
NoFile == [exists |-> FALSE, text |-> <<>>]
File(text) == [exists |-> TRUE, text |-> text]
\* no EditorResult yet
NoResult == [success |-> FALSE, cancelled |-> FALSE, content |-> <<>>, error |-> "",
             thrown |-> FALSE]
\* no call of openInEditor is under way
EditorIdle == [pc |-> "idle", content |-> <<>>, file |-> NoFile, status |-> 0,
               faults |-> {}, result |-> NoResult]

\* no call of a utility function is under way
NoCall == [pc |-> "idle"]

InitApp ==
    /\ InitState
    /\ ed = EditorIdle
    /\ util = NoCall

Init == InitApp /\ clock = [counted |-> FALSE, idle |-> 0] /\ clip = Clipboard(FALSE)
InitClock == InitApp /\ clock = [counted |-> TRUE, idle |-> 0] /\ clip = Clipboard(FALSE)
InitClip == InitApp /\ clock = [counted |-> FALSE, idle |-> 0] /\ clip = Clipboard(TRUE)

\* a keystroke reached the program
Touch == clock' = [clock EXCEPT !.idle = 0]

Event(kind, key, calls) ==
    lastEvent' = [kind |-> kind, key |-> key, calls |-> calls, out |-> {}]
\* a deferred callback has run: the commands it ran and what the agent answered
Answered(calls, out) ==
    lastEvent' = [kind |-> "deferred", key |-> Null, calls |-> calls, out |-> out]

Mounted == proc = "running"
\* the process is alive: its event loop still runs callbacks
Alive == proc \in {"running", "unmounted"}
\* a callback that calls setState runs after React has flushed the queued effects
Flushed == pendingEffects \subseteq {"unmount"}

---------------------------------------------------------------------------
(* setState / setQuery and the effects their commit queues *)

\* fault variant: the effect on [query] is missing
QueuedWithoutQuery(ns, nq) ==
    (IF ns.session # state.session THEN {"session"} ELSE {})
    \cup (IF ns.mode # state.mode /\ ns.mode = "exiting" THEN {"exiting"} ELSE {})
    \cup (IF ns.config.auto_close_hours # state.config.auto_close_hours
          THEN {"autoclose"} ELSE {})
\* the dependency arrays of the effects: [query], [state.session], [state.mode, ...],
\* [..., state.config.auto_close_hours]
Queued(ns, nq) ==
    (IF nq # query THEN {"query"} ELSE {})
    \cup (IF ns.session # state.session THEN {"session"} ELSE {})
    \cup (IF ns.mode # state.mode /\ ns.mode = "exiting" THEN {"exiting"} ELSE {})
    \cup (IF ns.config.auto_close_hours # state.config.auto_close_hours
          THEN {"autoclose"} ELSE {})

\* a state update is dropped once the component is unmounted
Commit(ns, nq) ==
    IF Mounted
    THEN /\ state' = [ns EXCEPT !.message = IF @ = Null THEN Null ELSE Displayed]
         /\ shown' = IF ns.message \in {Null, Displayed} THEN Null ELSE ns.message
         /\ query' = nq
         /\ pendingEffects' = pendingEffects \cup Queued(ns, nq)
    ELSE /\ shown' = Null
         /\ UNCHANGED <<state, query, pendingEffects>>

\* what is left of the component once it is unmounted or the process is gone:
\* nothing renders or reads its state any more; the mode and the session it
\* ended with are kept
Gone(st) == [st EXCEPT !.previousMode = Null, !.items = <<>>, !.selectedIndex = 0,
                       !.selectedItem = NoItem, !.error = Null, !.config = StartConfig,
                       !.message = Null]
Unmount ==
    /\ state' = Gone(state)
    /\ shown' = Null
    /\ query' = <<>>
    /\ sortMode' = "default"

\* showMessage: the pending expiry timer is cleared and a new one is armed
ShowMessage(ns, m) == [ns EXCEPT !.message = m]

\* the effects as they run at a flush
FlushedSessionRef ==
    IF "session" \in pendingEffects THEN state.session ELSE sessionRef
FlushedExiting(et) ==
    et \/ ("exiting" \in pendingEffects /\ state.mode = "exiting")
FlushedAutoClose(ac) ==
    IF "autoclose" \in pendingEffects
    THEN [armed |-> TRUE, left |-> TimeoutHours(state.config)]
    ELSE ac

---------------------------------------------------------------------------
(* Shutdown: cleanup() and the two ways to leave *)

\* cleanup(): lockVault(sessionRef.current) when the ref holds a session
CleanupLocks == sessionRef # Null
Cleanup ==
    /\ lockCalls' = IF CleanupLocks THEN Append(lockCalls, sessionRef) ELSE lockCalls
    /\ agent' = IF CleanupLocks THEN "locked" ELSE agent
CleanupCalls == IF CleanupLocks THEN {"lock"} ELSE {}

\* exit() of useApp: React flushes the queued effects, the tree is unmounted and
\* the cleanups of the effects are queued; a second exit() changes nothing.
\* et, ac: the exiting timer and the auto-close timer as the caller leaves them
Exit(et, ac) ==
    IF Mounted
    THEN /\ proc' = "unmounted"
         /\ Unmount
         /\ pendingEffects' = {"unmount"}
         /\ sessionRef' = FlushedSessionRef
         /\ exitingTimer' = FlushedExiting(et)
         /\ autoClose' = FlushedAutoClose(ac)
    ELSE /\ exitingTimer' = et
         /\ autoClose' = ac
         /\ UNCHANGED <<proc, pendingEffects, sessionRef, appVars>>

\* mount: the effects of the first render (signal handlers, auto-close timer, bw check)
Mount ==
    /\ proc = "mounting"
    /\ proc' = "running"
    /\ signalsOn' = TRUE
    /\ autoClose' = [armed |-> TRUE, left |-> TimeoutHours(state.config)]
    /\ \E check \in {"ok", "not-installed", "unauthenticated"} :
          /\ state' = IF check = "ok" THEN state
                      ELSE [state EXCEPT !.mode = "error", !.error = check]
          /\ shown' = Null
          /\ Event("mount", Null, IF check = "not-installed" THEN {"version"}
                                  ELSE {"version", "status"})
    /\ UNCHANGED <<query, sortMode, sessionRef, messageTimer, deferred, exitingTimer,
                   pendingEffects, agentVars, clock>>
    /\ UNCHANGED <<clip, ed, util>>

\* the passive effects queued by the last commits, and on unmount their cleanups
FlushPassiveEffects ==
    /\ Alive
    /\ pendingEffects # {}
    /\ pendingEffects' = {}
    /\ IF Mounted
       THEN /\ state' = IF "query" \in pendingEffects
                        THEN [state EXCEPT !.selectedIndex = 0] ELSE state
            /\ sessionRef' = FlushedSessionRef
            /\ exitingTimer' = FlushedExiting(exitingTimer)
            /\ autoClose' = FlushedAutoClose(autoClose)
            /\ UNCHANGED <<messageTimer, signalsOn>>
       ELSE /\ exitingTimer' = FALSE
            /\ autoClose' = [armed |-> FALSE, left |-> 0]
            /\ signalsOn' = FALSE
            /\ messageTimer' = FALSE
            /\ UNCHANGED <<state, sessionRef>>
    /\ Event("effects", Null, {})
    /\ shown' = Null
    /\ UNCHANGED <<query, sortMode, deferred, proc, agentVars, clock>>
    /\ UNCHANGED <<clip, ed, util>>

\* the timer of the exiting effect: cleanup(); exit()
ExitingTimerFires ==
    /\ Alive
    /\ exitingTimer
    /\ Cleanup
    /\ Exit(FALSE, autoClose)
    /\ Event("exiting-timer", Null, CleanupCalls)
    /\ UNCHANGED <<messageTimer, deferred, signalsOn, vault, mutations, clock>>
    /\ UNCHANGED <<clip, ed, util>>

\* autoCloseTimer: cleanup(); exit()
AutoCloseFires ==
    /\ Alive
    /\ autoClose.armed
    /\ autoClose.left = 0
    /\ Cleanup
    /\ Exit(exitingTimer, [armed |-> FALSE, left |-> 0])
    /\ Event("auto-close", Null, CleanupCalls)
    /\ UNCHANGED <<messageTimer, deferred, signalsOn, vault, mutations, clock>>
    /\ UNCHANGED <<clip, ed, util>>

\* handleSignal: cleanup(); process.exit(0)
Signal ==
    /\ Alive
    /\ signalsOn
    /\ Cleanup
    /\ proc' = "terminated"
    /\ Unmount
    /\ Event("signal", Null, CleanupCalls)
    /\ clip' = [clip EXCEPT !.timers = <<>>]
    /\ UNCHANGED <<sessionRef, timerVars, signalsOn, pendingEffects, vault,
                   mutations, clock>>
    /\ UNCHANGED <<ed, util>>

\* Global: Ctrl+D or Ctrl+C to quit, in every mode
QuitKeys == {"ctrl+d", "ctrl+c"}
KeyAccepted == Mounted /\ pendingEffects = {}
GlobalQuit ==
    /\ KeyAccepted
    /\ \E k \in QuitKeys :
          Event("key", k, CleanupCalls)
    /\ Cleanup
    /\ Exit(exitingTimer, autoClose)
    /\ Touch
    /\ UNCHANGED <<messageTimer, deferred, signalsOn, vault, mutations>>
    /\ UNCHANGED <<clip, ed, util>>

\* the event loop has nothing left to run after the unmount
Terminate ==
    /\ proc = "unmounted"
    /\ pendingEffects = {}
    /\ deferred = <<>>
    /\ ~messageTimer /\ ~exitingTimer /\ ~autoClose.armed
    /\ clip.timers = <<>>
    /\ proc' = "terminated"
    /\ Event("terminate", Null, {})
    /\ shown' = Null
    /\ UNCHANGED <<uiVars, sessionRef, timerVars, signalsOn, pendingEffects, agentVars,
                   clock>>
    /\ UNCHANGED <<clip, ed, util>>

\* the message expiry timer of showMessage
MessageTimerFires ==
    /\ Alive
    /\ Flushed
    /\ messageTimer
    /\ messageTimer' = FALSE
    /\ Commit([state EXCEPT !.message = Null], query)
    /\ Event("message-timer", Null, {})
    /\ UNCHANGED <<sortMode, sessionRef, deferred, exitingTimer, autoClose, signalsOn,
                   proc, agentVars, clock>>
    /\ UNCHANGED <<clip, ed, util>>

\* an hour of wall-clock time passes (until the auto-close timer is due); the
\* queued effects, the 50 ms callbacks and the message expiry have run long before
IdleCap == StartConfig.auto_close_hours
Tick ==
    /\ Mounted
    /\ pendingEffects = {}
    /\ deferred = <<>>
    /\ ~exitingTimer
    /\ ~messageTimer
    /\ autoClose.armed
    /\ autoClose.left > 0
    /\ autoClose' = [autoClose EXCEPT !.left = @ - 1]
    /\ clock' = [clock EXCEPT !.idle = Min(@ + 1, IdleCap)]
    /\ Event("tick", Null, {})
    /\ shown' = Null
    /\ UNCHANGED <<uiVars, sessionRef, messageTimer, deferred, exitingTimer, signalsOn,
                   proc, pendingEffects, agentVars>>
    /\ UNCHANGED <<clip, ed, util>>

---------------------------------------------------------------------------
(* Unlock *)

Job(op, session, item) == [op |-> op, session |-> session, item |-> item]

\* fault variant: the session token is stored but the listed items are not
ListedStale(st, session, items) ==
    [st EXCEPT !.mode = "search", !.session = session, !.error = Null]
\* fault variant: the list is stored but the session token is not
ListedWithoutSession(st, session, items) ==
    [st EXCEPT !.mode = "search", !.items = items, !.error = Null]
\* setState after unlockVault and listItems succeeded
Listed(st, session, items) ==
    [st EXCEPT !.mode = "search", !.session = session, !.items = items, !.error = Null]

\* fault variant: an accepted request leaves the mode as it is
ProcessingSkipped(st) == st
\* setState((s) => ({ ...s, mode: "processing" })) of an accepted create / edit / delete
Processing(st) == [st EXCEPT !.mode = "processing"]

\* PasswordPrompt: Enter submits; handlePasswordSubmit shows Loading and defers the calls
PasswordSubmit ==
    /\ KeyAccepted
    /\ state.mode = "password"
    /\ Commit([state EXCEPT !.mode = "loading", !.error = Null], query)
    /\ deferred' = Append(deferred, Job("unlock", Null, NoItem))
    /\ Touch
    /\ Event("key", "return", {})
    /\ UNCHANGED <<sortMode, sessionRef, messageTimer, exitingTimer, autoClose, signalsOn,
                   proc, agentVars>>
    /\ UNCHANGED <<clip, ed, util>>

\* unlockVault: the exit status, stdout and stderr of bw unlock --raw
DefaultUnlockError == "Failed to unlock vault"
UnlockRuns ==
    { [status |-> 0, stdout |-> Token, stderr |-> ""],
      [status |-> 0, stdout |-> "", stderr |-> ""],
      [status |-> 1, stdout |-> "", stderr |-> "Invalid master password."],
      [status |-> 1, stdout |-> "", stderr |-> ""] }
unlockVault(run) ==
    IF run.status # 0
    THEN [success |-> FALSE, session |-> Null,
          error |-> IF run.stderr # "" THEN run.stderr ELSE DefaultUnlockError]
    ELSE [success |-> TRUE, session |-> run.stdout, error |-> Null]

\* fault variant: the error of the result is shown as it is, without the default
UnlockFailedSilently(st, result) ==
    [st EXCEPT !.mode = "password", !.error = result.error]
\* setState after a failed unlock: result.error ?? "Failed to unlock vault"
UnlockFailed(st, result) ==
    [st EXCEPT !.mode = "password",
               !.error = IF result.error # Null THEN result.error ELSE DefaultUnlockError]

\* fault variant: the failed listing leaves the state as it is
ListFailedUnnoticed(st) == st
\* setState after listItems threw
ListFailed(st) == [st EXCEPT !.mode = "error", !.error = "Failed to fetch items"]

\* the deferred part of handlePasswordSubmit: unlockVault, listItems
DeferredUnlock ==
    /\ Alive
    /\ Flushed
    /\ deferred # <<>>
    /\ Head(deferred).op = "unlock"
    /\ deferred' = Tail(deferred)
    /\ \E run \in UnlockRuns, listed \in BOOLEAN :
          LET result == unlockVault(run)
          IN IF ~result.success \/ result.session = ""
             THEN /\ Commit(UnlockFailed(state, result), query)
                  /\ Answered({"unlock"}, {})
                  /\ UNCHANGED <<agent, lockCalls>>
             ELSE IF listed
             THEN /\ Commit(Listed(state, result.session, vault), query)
                  /\ agent' = "unlocked"
                  /\ Answered({"unlock", "list"}, {"unlocked", "listed"})
                  /\ UNCHANGED lockCalls
             ELSE /\ Commit(ListFailed(state), query)
                  /\ lockCalls' = Append(lockCalls, result.session)
                  /\ agent' = "locked"
                  /\ Answered({"unlock", "list", "lock"}, {"unlocked"})
    /\ UNCHANGED <<sortMode, sessionRef, messageTimer, exitingTimer, autoClose, signalsOn,
                   proc, vault, mutations, clock>>
    /\ UNCHANGED <<clip, ed, util>>

---------------------------------------------------------------------------
(* Keyboard input: App.useInput, SearchInput.useInput, GenerateView.useInput *)

Printable == {"a", "b", "z", "A", "d", "y", "Y"}
\* fault variant: the input is compared as it was typed
Verbatim(k) == k
\* input.toLowerCase()
Lower(k) == CASE k = "A" -> "a" [] k = "Y" -> "y" [] OTHER -> k
\* Number.parseInt(input) - 1
VisibleIdx(k) == CASE k = "alt+1" -> 0 [] k = "alt+2" -> 1 [] OTHER -> 9

\* the render falls through to the search view, which mounts SearchInput
SearchInputActive ==
    \/ state.mode = "search"
    \/ state.mode \in {"detail", "confirm-delete"} /\ state.selectedItem = NoItem

\* SearchInput.useInput: Backspace drops the last character, a printable key is appended
TypedQuery(k) ==
    IF ~SearchInputActive THEN query
    ELSE IF k = "backspace" THEN SubSeq(query, 1, Len(query) - 1)
    ELSE IF k \in Printable THEN query \o <<k>>
    ELSE query

\* the keys offered to the search field keep the query within the bound
Typable(k) ==
    k \in Printable /\ SearchInputActive =>
        /\ query \o <<k>> \in Queries

\* a key handler that only updates the UI state; msg: it called showMessage,
\* calls: the commands it ran
UiKeyOut(k, ns, nq, nsort, msg, calls, out) ==
    /\ Commit(ns, nq)
    /\ sortMode' = nsort
    /\ messageTimer' = (msg \/ messageTimer)
    /\ Touch
    /\ lastEvent' = [kind |-> "key", key |-> k, calls |-> calls, out |-> out]
    /\ UNCHANGED <<sessionRef, deferred, exitingTimer, autoClose, signalsOn, proc,
                   agentVars>>
UiKeyCalls(k, ns, nq, nsort, msg, calls) == UiKeyOut(k, ns, nq, nsort, msg, calls, {})
UiKey(k, ns, nq, nsort, msg) == UiKeyCalls(k, ns, nq, nsort, msg, {})

\* fault variant: the filter lets the input of error mode through
InputIgnoredModesNoError == {"password", "loading", "generate", "processing", "exiting"}
\* fault variant: the filter lets the input of processing mode through
InputIgnoredModesLax == {"password", "loading", "error", "generate", "exiting"}
\* the modes whose input App.useInput drops after the global quit check
InputIgnoredModes == {"password", "loading", "error", "generate", "processing", "exiting"}

\* the input reaches the branches after the mode filter
PastFilter == state.mode \notin InputIgnoredModes
\* ... and after the confirm-delete branch, which always returns
PastConfirm == PastFilter /\ state.mode # "confirm-delete"

\* the keys that reach a branch of a handler in the current mode (PasswordPrompt
\* consumes every key)
Handled(k) ==
    \/ state.mode = "password"
    \/ state.mode = "generate" /\ k \in {"escape", "backspace", "return"}
    \/ PastFilter /\ state.mode = "confirm-delete"
    \/ PastConfirm /\ k = "escape"
    \/ PastConfirm /\ k = "backspace" /\ state.mode \in {"detail", "shortcut"}
    \/ PastConfirm /\ state.mode = "shortcut"
    \/ PastConfirm /\ state.mode \in {"search", "detail"} /\ k \in {"ctrl+g", "ctrl+x", "ctrl+r"}
    \/ PastConfirm /\ state.mode = "search" /\ k = "ctrl+n"
    \/ PastConfirm /\ state.mode = "detail" /\ k \in {"ctrl+e", "d"}
    \/ PastConfirm /\ state.mode = "search"
          /\ k \in {"ctrl+s", "ctrl+o", "alt+1", "alt+2", "alt+0", "up", "down", "pageup",
                    "pagedown", "return"}
    \/ SearchInputActive /\ k \in Printable \cup {"backspace"}

\* the keys tried on the modes and branches that react to none
ProbeKeys == {"escape", "backspace", "return", "ctrl+n", "ctrl+e", "y"}

\* a key no branch of the handlers reacts to in the current mode
KeyIgnored ==
    /\ KeyAccepted
    /\ \E k \in ProbeKeys :
          /\ ~Handled(k)
          /\ UiKey(k, state, query, sortMode, FALSE)
    /\ UNCHANGED <<clip, ed, util>>

\* Confirm delete mode - y to confirm, anything else to cancel
ConfirmDeleteKey ==
    /\ KeyAccepted
    /\ PastFilter
    /\ state.mode = "confirm-delete"
    /\ \E k \in {"y", "Y", "d", "escape", "return"} :
          /\ Typable(k)
          /\ IF Lower(k) = "y" /\ state.selectedItem # NoItem /\ state.session # Null
             THEN /\ mutations < MaxMutations
                  /\ Commit(Processing(state), TypedQuery(k))
                  /\ deferred' = Append(deferred, Job("delete", state.session, state.selectedItem))
                  /\ UNCHANGED messageTimer
             ELSE /\ Commit(ShowMessage([state EXCEPT !.mode = "detail"], "Delete cancelled"),
                            TypedQuery(k))
                  /\ messageTimer' = TRUE
                  /\ UNCHANGED deferred
          /\ Event("key", k, {})
    /\ Touch
    /\ UNCHANGED <<sortMode, sessionRef, exitingTimer, autoClose, signalsOn, proc,
                   agentVars>>
    /\ UNCHANGED <<clip, ed, util>>

\* fault variant: the detail view is closed with its item kept
BackKeepingItem(st) == [st EXCEPT !.mode = "search"]
\* the setState of Escape and Backspace in detail mode (mode search, selectedItem
\* null) and in shortcut mode (mode search)
BackToSearch(st) ==
    IF st.mode = "detail"
    THEN [st EXCEPT !.mode = "search", !.selectedItem = NoItem]
    ELSE [st EXCEPT !.mode = "search"]

\* Escape to go back / close
EscapeKey ==
    /\ KeyAccepted
    /\ PastConfirm
    /\ UiKey("escape",
             CASE state.mode \in {"detail", "shortcut"} -> BackToSearch(state)
               [] OTHER -> [state EXCEPT !.mode = "exiting"],
             query, sortMode, FALSE)
    /\ UNCHANGED <<clip, ed, util>>

\* Backspace to go back; in the search view it reaches the search field
BackspaceKey ==
    /\ KeyAccepted
    /\ PastConfirm
    /\ Handled("backspace")
    /\ UiKey("backspace",
             CASE state.mode \in {"detail", "shortcut"} -> BackToSearch(state)
               [] OTHER -> state,
             TypedQuery("backspace"), sortMode, FALSE)
    /\ UNCHANGED <<clip, ed, util>>

\* loadConfig after the editor: a config, or the TypeError of validateConfig on a
\* file that parses to null (an empty file)
LoadConfigOutcomes == {"config", "thrown"}
\* nothing in the key handler catches what loadConfig throws: the uncaught
\* exception ends the process before any setState, cleanup() is not run
ReloadThrows ==
    /\ proc' = "terminated"
    /\ Unmount
    /\ lastEvent' = [kind |-> "key", key |-> "ctrl+e", calls |-> {"editor"},
                     out |-> {"thrown"}]
    /\ clip' = [clip EXCEPT !.timers = <<>>]
    /\ UNCHANGED <<sessionRef, timerVars, signalsOn, pendingEffects, agentVars, clock>>

\* handleEditConfig: the editor on the config file, then loadConfig
EditConfigKey ==
    /\ KeyAccepted
    /\ PastConfirm
    /\ state.mode = "shortcut"
    /\ \E status \in {0, 1}, newConfig \in Configs, loaded \in LoadConfigOutcomes :
          IF status # 0
          THEN /\ UiKeyCalls("ctrl+e",
                             ShowMessage([state EXCEPT !.mode = "search"],
                                         "Editor exited with code"),
                             query, sortMode, TRUE, {"editor"})
               /\ UNCHANGED clip
          ELSE IF loaded = "thrown"
          THEN ReloadThrows
          ELSE /\ UiKeyCalls("ctrl+e",
                             ShowMessage([state EXCEPT !.config = newConfig,
                                                       !.mode = "search"],
                                         "Config reloaded"),
                             query, sortMode, TRUE, {"editor"})
               /\ UNCHANGED clip
    /\ UNCHANGED <<ed, util>>

\* fault variant: the trigger is compared with the input as typed
FindShortcutExact(shortcuts, k) ==
    LET hits == { i \in 1..Len(shortcuts) : shortcuts[i].key = k }
    IN IF hits = {} THEN 0 ELSE CHOOSE i \in hits : \A j \in hits : i <= j
\* state.config.shortcuts.find(s => s.key.toLowerCase() === input.toLowerCase())
FindShortcut(shortcuts, k) ==
    LET hits == { i \in 1..Len(shortcuts) : Lower(shortcuts[i].key) = Lower(k) }
    IN IF hits = {} THEN 0 ELSE CHOOSE i \in hits : \A j \in hits : i <= j

\* Shortcut mode: a matching key runs handleShortcut, any other key does nothing
ShortcutKey ==
    /\ KeyAccepted
    /\ PastConfirm
    /\ state.mode = "shortcut"
    /\ \E k \in {"a", "A", "b", "y", "return"} :
          LET i == FindShortcut(state.config.shortcuts, k)
          IN IF i = 0
             THEN UiKey(k, state, query, sortMode, FALSE)
             ELSE UiKey(k, [state EXCEPT !.mode = "search", !.selectedIndex = 0],
                        state.config.shortcuts[i].search, sortMode, FALSE)
    /\ UNCHANGED <<clip, ed, util>>

\* Ctrl+G opens the password generator
GeneratorKey ==
    /\ KeyAccepted
    /\ PastConfirm
    /\ state.mode \in {"search", "detail"}
    /\ UiKey("ctrl+g", [state EXCEPT !.mode = "generate", !.previousMode = state.mode],
             query, sortMode, FALSE)
    /\ UNCHANGED <<clip, ed, util>>

\* fault variant: the previous mode is left set when the generator is closed
GeneratorExitKeepingPrevious(st) ==
    [st EXCEPT !.mode = IF st.previousMode = Null THEN "search" ELSE st.previousMode]
\* fault variant: the generator always closes to the search view
GeneratorExitToSearch(st) == [st EXCEPT !.mode = "search", !.previousMode = Null]
\* handleGeneratorExit: mode: s.previousMode ?? "search", previousMode: null
handleGeneratorExit(st) ==
    [st EXCEPT !.mode = IF st.previousMode = Null THEN "search" ELSE st.previousMode,
               !.previousMode = Null]

\* GenerateView: Escape / Backspace exit, Enter copies and exits (handleGeneratorExit)
GenerateViewKey ==
    /\ KeyAccepted
    /\ state.mode = "generate"
    /\ LET back == handleGeneratorExit(state)
       IN \/ /\ \E k \in {"escape", "backspace"} : UiKey(k, back, query, sortMode, FALSE)
             /\ UNCHANGED clip
          \/ \E copied \in BOOLEAN :
                /\ UiKeyOut("return",
                      ShowMessage(back, IF copied THEN "Password copied!" ELSE "Copy failed"),
                      query, sortMode, TRUE, {"clipboard"},
                      IF copied THEN {"copied"} ELSE {})
                /\ clip' = IF copied
                           THEN scheduleClipboardClear(copyToClipboard(clip, "secret"),
                                                       state.config.clipboard_clear_seconds)
                           ELSE clip
    /\ UNCHANGED <<ed, util>>

\* Ctrl+X clears search
ClearQueryKey ==
    /\ KeyAccepted
    /\ PastConfirm
    /\ state.mode \in {"search", "detail"}
    /\ UiKey("ctrl+x", state, <<>>, sortMode, FALSE)
    /\ UNCHANGED <<clip, ed, util>>

\* 'd' key in detail mode triggers delete confirmation
DeleteKey ==
    /\ KeyAccepted
    /\ PastConfirm
    /\ state.mode = "detail"
    /\ Typable("d")
    /\ UiKey("d", [state EXCEPT !.mode = "confirm-delete"], TypedQuery("d"), sortMode, FALSE)
    /\ UNCHANGED <<clip, ed, util>>

\* Ctrl+S enters shortcut mode
ShortcutModeKey ==
    /\ KeyAccepted
    /\ PastConfirm
    /\ state.mode = "search"
    /\ UiKey("ctrl+s", [state EXCEPT !.mode = "shortcut"], query, sortMode, FALSE)
    /\ UNCHANGED <<clip, ed, util>>

\* Ctrl+O toggles sort order
SortKey ==
    /\ KeyAccepted
    /\ PastConfirm
    /\ state.mode = "search"
    /\ UiKey("ctrl+o",
             ShowMessage(state, IF sortMode = "default" THEN "Sort: by date" ELSE "Sort: by relevance"),
             query, IF sortMode = "default" THEN "date" ELSE "default", TRUE)
    /\ UNCHANGED <<clip, ed, util>>

\* a printable key in the search view: SearchInput appends it to the query
TypeKey ==
    /\ KeyAccepted
    /\ PastConfirm
    /\ state.mode = "search"
    /\ \E k \in QueryChars :
          /\ Typable(k)
          /\ UiKey(k, state, TypedQuery(k), sortMode, FALSE)
    /\ UNCHANGED <<clip, ed, util>>

\* fault variant: the window is taken to start a whole page above the selection
ScrollOffsetTop == Max(0, state.selectedIndex - state.config.max_visible_entries)
\* scrollOffset of the visible window
ScrollOffset == Max(0, state.selectedIndex - (state.config.max_visible_entries \div 2))
PageStep == state.config.max_visible_entries \div 2

\* Alt+1-9, Alt+0 for direct selection (relative to visible window)
JumpKey ==
    /\ KeyAccepted
    /\ PastConfirm
    /\ state.mode = "search"
    /\ \E k \in {"alt+1", "alt+2", "alt+0"} :
          LET actualIdx == ScrollOffset + VisibleIdx(k)
          IN IF actualIdx < Len(results)
             THEN UiKey(k, [state EXCEPT !.selectedIndex = actualIdx,
                                         !.selectedItem = results[actualIdx + 1],
                                         !.mode = "detail"],
                        query, sortMode, FALSE)
             ELSE UiKey(k, state, query, sortMode, FALSE)
    /\ UNCHANGED <<clip, ed, util>>

\* Arrow and page navigation
MovedIndex(k) ==
    CASE k = "up" -> Max(0, state.selectedIndex - 1)
      [] k = "down" -> Max(0, Min(Len(results) - 1, state.selectedIndex + 1))
      [] k = "pageup" -> Max(0, state.selectedIndex - PageStep)
      [] OTHER -> Min(Len(results) - 1, state.selectedIndex + PageStep)

NavigationKey ==
    /\ KeyAccepted
    /\ PastConfirm
    /\ state.mode = "search"
    /\ \E k \in {"up", "down", "pageup", "pagedown"} :
          UiKey(k, [state EXCEPT !.selectedIndex = MovedIndex(k)], query, sortMode, FALSE)
    /\ UNCHANGED <<clip, ed, util>>

\* Enter to view detail.  results[s.selectedIndex] of an index outside the list is
\* undefined and reading .item of it throws in the state updater: the render fails,
\* ink unmounts the tree with the error and cleanup() is not called
EnterKey ==
    /\ KeyAccepted
    /\ PastConfirm
    /\ state.mode = "search"
    /\ IF Len(results) = 0
       THEN UiKey("return", state, query, sortMode, FALSE)
       ELSE IF state.selectedIndex \in 0..(Len(results) - 1)
       THEN UiKey("return", [state EXCEPT !.mode = "detail",
                                          !.selectedItem = results[state.selectedIndex + 1]],
                  query, sortMode, FALSE)
       ELSE /\ proc' = "unmounted"
            /\ Unmount
            /\ pendingEffects' = {"unmount"}
            /\ Touch
            /\ Event("key", "return", {})
            /\ UNCHANGED <<sessionRef, timerVars, signalsOn, agentVars>>
    /\ UNCHANGED <<clip, ed, util>>

---------------------------------------------------------------------------
(* The vault agent behind createItem / editItem / deleteItem / syncVault *)

\* the agent serves a session it has not locked
AgentServes(session) == session # Null /\ agent = "unlocked"

\* the id and the revision date the agent gives a new item, the date of an edited one
NewItem(item) == [item EXCEPT !.id = Len(InitialVault) + mutations + 1,
                              !.rev = Len(InitialVault) + mutations + 1]
Revised(item) == [item EXCEPT !.rev = Len(InitialVault) + mutations + 1]

RECURSIVE ReplaceById(_, _)
ReplaceById(s, item) ==
    IF s = <<>> THEN <<>>
    ELSE <<IF Head(s).id = item.id THEN item ELSE Head(s)>> \o ReplaceById(Tail(s), item)

RECURSIVE RemoveById(_, _)
RemoveById(s, id) ==
    IF s = <<>> THEN <<>>
    ELSE IF Head(s).id = id THEN RemoveById(Tail(s), id)
    ELSE <<Head(s)>> \o RemoveById(Tail(s), id)

\* items.find((i) => i.id === id) ?? null
FindById(s, id) ==
    LET hits == { i \in 1..Len(s) : s[i].id = id }
    IN IF hits = {} THEN NoItem ELSE s[CHOOSE i \in hits : \A j \in hits : i <= j]

\* the agent edits and deletes only an item its vault holds: a request for an id
\* that is gone (an item of a stale list) is refused
AgentHolds(id) == FindById(vault, id) # NoItem

---------------------------------------------------------------------------
(* Sync, create, edit, delete *)

\* fault variant: the refusal of the agent leaves the mode as it is
FailedStuck(st, mode) == st
\* setState after the agent refused a create / edit / delete
Failed(st, mode) == [st EXCEPT !.mode = mode]

\* fault variant: the failed re-list empties the items
UnrefreshedEmptied(st, mode) == [st EXCEPT !.mode = mode, !.items = <<>>]
\* fault variant: after a failed re-list the detailed item is taken out locally
UnrefreshedPatched(st, mode) ==
    [st EXCEPT !.mode = mode, !.items = RemoveById(st.items, st.selectedItem.id)]
\* setState in the catch branch of the re-list: the items are left as they were
Unrefreshed(st, mode) == [st EXCEPT !.mode = mode]

\* fault variant: the search view is shown whether or not the agent returned the item
CreatedToSearch(st, items, newItem) ==
    [st EXCEPT !.items = items, !.selectedItem = newItem, !.mode = "search"]
\* setState after createItem and the re-list: newItem is createResult.item or null
Created(st, items, newItem) ==
    [st EXCEPT !.items = items, !.selectedItem = newItem,
               !.mode = IF newItem # NoItem THEN "detail" ELSE "search"]

\* fault variant: the detailed item is dropped while the mode goes to detail
UpdatedItemLost(st, items, id) ==
    [st EXCEPT !.items = items, !.selectedItem = NoItem, !.mode = "detail"]
\* fault variant: the detailed item is not taken from the refreshed list
UpdatedKeepingItem(st, items, id) == [st EXCEPT !.items = items, !.mode = "detail"]
\* setState after editItem and the re-list
Updated(st, items, id) ==
    [st EXCEPT !.items = items, !.selectedItem = FindById(items, id), !.mode = "detail"]

\* setState after deleteItem and the re-list
Trashed(st, items) ==
    [st EXCEPT !.items = items, !.selectedItem = NoItem, !.selectedIndex = 0,
               !.mode = "search"]

\* Ctrl+R syncs and refreshes items
SyncKey ==
    /\ KeyAccepted
    /\ PastConfirm
    /\ state.mode \in {"search", "detail"}
    /\ state.session # Null
    /\ \E synced \in BOOLEAN, listed \in BOOLEAN :
          IF ~(synced /\ AgentServes(state.session))
          THEN /\ Commit(ShowMessage(state, "Sync failed"), query)
               /\ Event("key", "ctrl+r", {"sync"})
          ELSE IF listed
          THEN /\ Commit(ShowMessage([state EXCEPT !.items = vault], "Synced!"), query)
               /\ Event("key", "ctrl+r", {"sync", "list"})
          ELSE /\ Commit(ShowMessage(state, "Refresh failed"), query)
               /\ Event("key", "ctrl+r", {"sync", "list"})
    /\ messageTimer' = TRUE
    /\ Touch
    /\ UNCHANGED <<sortMode, sessionRef, deferred, exitingTimer, autoClose, signalsOn,
                   proc, agentVars>>
    /\ UNCHANGED <<clip, ed, util>>

\* what the editor round trip and yamlToItem give back to the handler
EditorOutcomes == {"error", "cancelled", "invalid", "item"}

\* fault variant: content that yamlToItem rejects is sent on
UsableUnlessEditorFails(outcome) == outcome \in {"invalid", "item"}
\* the guards of handleCreate / handleEdit: result.success, not cancelled and with
\* content, and yamlToItem gave an item
Usable(outcome) == outcome = "item"

\* the editor round trip of handleCreate / handleEdit has run: openInEditor, then
\* yamlToItem; the step records what they gave back, and "content" when the
\* handler went on to send it to the agent
Edited(k, outcome, sent) ==
    lastEvent' = [kind |-> "key", key |-> k, calls |-> {"editor"},
                  out |-> {outcome} \cup (IF sent THEN {"content"} ELSE {})]

\* handleCreate: Ctrl+N in search mode
CreateKey ==
    /\ KeyAccepted
    /\ PastConfirm
    /\ state.mode = "search"
    /\ state.session # Null
    /\ \E outcome \in EditorOutcomes, name \in EditorNames :
          IF Usable(outcome)
          THEN /\ mutations < MaxMutations
               /\ Commit(Processing(state), query)
               /\ deferred' = Append(deferred,
                                 Job("create", state.session, Login(0, name, 0)))
               /\ Edited("ctrl+n", outcome, TRUE)
               /\ UNCHANGED messageTimer
          ELSE /\ Commit(ShowMessage(state,
                            CASE outcome = "error" -> "Editor error"
                              [] outcome = "cancelled" -> "Create cancelled"
                              [] OTHER -> "Invalid YAML or missing required fields"), query)
               /\ messageTimer' = TRUE
               /\ Edited("ctrl+n", outcome, FALSE)
               /\ UNCHANGED deferred
    /\ Touch
    /\ UNCHANGED <<sortMode, sessionRef, exitingTimer, autoClose, signalsOn, proc,
                   agentVars>>
    /\ UNCHANGED <<clip, ed, util>>

\* the deferred part of handleCreate: createItem, syncVault, listItems
DeferredCreate ==
    /\ Alive
    /\ Flushed
    /\ deferred # <<>>
    /\ Head(deferred).op = "create"
    /\ deferred' = Tail(deferred)
    /\ messageTimer' = TRUE
    /\ LET job == Head(deferred)
           created == NewItem(job.item)
       IN \E ok \in BOOLEAN, returned \in BOOLEAN, listed \in BOOLEAN :
             IF ~(ok /\ AgentServes(job.session))
             THEN /\ Commit(ShowMessage(Failed(state, "search"), "Create failed"), query)
                  /\ Answered({"create"}, {})
                  /\ UNCHANGED <<vault, mutations>>
             ELSE /\ vault' = Append(vault, created)
                  /\ mutations' = mutations + 1
                  /\ Answered({"create", "sync", "list"},
                              {"done"} \cup (IF returned THEN {"item"} ELSE {})
                                       \cup (IF listed THEN {"listed"} ELSE {}))
                  /\ IF listed
                     THEN Commit(ShowMessage(
                              Created(state, vault', IF returned THEN created ELSE NoItem),
                              "Created"), query)
                     ELSE Commit(ShowMessage(Unrefreshed(state, "search"),
                                             "Created but failed to refresh list"), query)
    /\ UNCHANGED <<sortMode, sessionRef, exitingTimer, autoClose, signalsOn, proc,
                   agent, lockCalls, clock>>
    /\ UNCHANGED <<clip, ed, util>>

\* fault variant: every item type is sent to the editor
EditableAny(item) == TRUE
\* state.selectedItem.type === CipherType.Login
Editable(item) == item.type = "Login"

\* handleEdit: Ctrl+E in detail mode
EditKey ==
    /\ KeyAccepted
    /\ PastConfirm
    /\ state.mode = "detail"
    /\ IF state.session = Null \/ state.selectedItem = NoItem
       THEN UiKey("ctrl+e", state, query, sortMode, FALSE)
       ELSE IF ~Editable(state.selectedItem)
       THEN UiKey("ctrl+e", ShowMessage(state, "Only login items can be edited"),
                  query, sortMode, TRUE)
       ELSE \E outcome \in EditorOutcomes, name \in EditorNames :
          /\ IF Usable(outcome) /\ name # state.selectedItem.name
             THEN /\ mutations < MaxMutations
                  /\ Commit(Processing(state), query)
                  /\ deferred' = Append(deferred,
                                    Job("edit", state.session,
                                        [state.selectedItem EXCEPT !.name = name]))
                  /\ Edited("ctrl+e", outcome, TRUE)
                  /\ UNCHANGED messageTimer
             ELSE /\ Commit(ShowMessage(state,
                               CASE outcome = "error" -> "Editor error"
                                 [] outcome = "cancelled" -> "Edit cancelled"
                                 [] outcome = "invalid" -> "Invalid YAML or missing required fields"
                                 [] OTHER -> "No changes"), query)
                  /\ messageTimer' = TRUE
                  /\ Edited("ctrl+e", outcome, FALSE)
                  /\ UNCHANGED deferred
          /\ Touch
          /\ UNCHANGED <<sortMode, sessionRef, exitingTimer, autoClose, signalsOn, proc,
                         agentVars>>
    /\ UNCHANGED <<clip, ed, util>>

\* the deferred part of handleEdit: editItem, syncVault, listItems
EditAnswered(present) ==
    /\ Alive
    /\ Flushed
    /\ deferred # <<>>
    /\ Head(deferred).op = "edit"
    /\ deferred' = Tail(deferred)
    /\ messageTimer' = TRUE
    /\ LET job == Head(deferred)
           edited == ReplaceById(vault, Revised(job.item))
       IN \E ok \in BOOLEAN, listed \in BOOLEAN :
             /\ present \/ (ok /\ listed)
             /\ IF ~(ok /\ AgentServes(job.session) /\ AgentHolds(job.item.id))
                THEN /\ Commit(ShowMessage(Failed(state, "detail"), "Edit failed"), query)
                     /\ Answered({"edit"}, {})
                     /\ UNCHANGED <<vault, mutations>>
                ELSE /\ vault' = IF present THEN edited ELSE RemoveById(edited, job.item.id)
                     /\ mutations' = mutations + 1
                     /\ Answered({"edit", "sync", "list"},
                                 {"done"} \cup (IF listed THEN {"listed"} ELSE {})
                                          \cup (IF present THEN {} ELSE {"lost"}))
                     /\ IF listed
                        THEN Commit(ShowMessage(Updated(state, vault', job.item.id),
                                                "Updated"), query)
                        ELSE Commit(ShowMessage(Unrefreshed(state, "detail"),
                                                "Updated but failed to refresh list"), query)
    /\ UNCHANGED <<sortMode, sessionRef, exitingTimer, autoClose, signalsOn, proc,
                   agent, lockCalls, clock>>
    /\ UNCHANGED <<clip, ed, util>>

\* the deferred part of handleEdit: editItem, syncVault, listItems; the list
\* holds the edited item
DeferredEdit == EditAnswered(TRUE)
\* the same callback when another client of the vault has trashed the item
\* after the edit: syncVault pulls that in, items.find gives undefined
DeferredEditRaced == EditAnswered(FALSE)

\* the deferred part of the confirmed delete: deleteItem, listItems
DeferredDelete ==
    /\ Alive
    /\ Flushed
    /\ deferred # <<>>
    /\ Head(deferred).op = "delete"
    /\ deferred' = Tail(deferred)
    /\ messageTimer' = TRUE
    /\ LET job == Head(deferred)
       IN \E ok \in BOOLEAN, listed \in BOOLEAN :
             IF ~(ok /\ AgentServes(job.session) /\ AgentHolds(job.item.id))
             THEN /\ Commit(ShowMessage(Failed(state, "detail"), "Delete failed"), query)
                  /\ Answered({"delete"}, {})
                  /\ UNCHANGED <<vault, mutations>>
             ELSE /\ vault' = RemoveById(vault, job.item.id)
                  /\ mutations' = mutations + 1
                  /\ Answered({"delete", "list"},
                              {"done"} \cup (IF listed THEN {"listed"} ELSE {}))
                  /\ IF listed
                     THEN Commit(ShowMessage(Trashed(state, vault'), "Moved to trash"), query)
                     ELSE Commit(ShowMessage(
                              [Unrefreshed(state, "search") EXCEPT !.selectedItem = NoItem,
                                                                   !.selectedIndex = 0],
                              "Deleted but failed to refresh list"), query)
    /\ UNCHANGED <<sortMode, sessionRef, exitingTimer, autoClose, signalsOn, proc,
                   agent, lockCalls, clock>>
    /\ UNCHANGED <<clip, ed, util>>

----------------------------------------------------------------------------
(* Copy to the clipboard: App.copyField, GenerateView Ctrl+P, the clear timer *)

\* a ?? b
Coalesce(a, b) == IF a # Null THEN a ELSE b

\* the fields of the active item that a copy of the given field reads: those of
\* item.login for a login, those of item.card for a card, each absent (Null),
\* empty or filled
FieldValues == {Null, "", "v"}
TotpFields == {Null, "", "seed", "steam://x"}
NoFields == [username |-> Null, password |-> Null, totp |-> Null,
             cardholderName |-> Null, number |-> Null, email |-> Null]
FieldsOf(item, field) ==
    CASE item.type = "Login" /\ field = "username" ->
           { [NoFields EXCEPT !.username = u] : u \in FieldValues }
      [] item.type = "Login" /\ field = "password" ->
           { [NoFields EXCEPT !.password = p] : p \in FieldValues }
      [] item.type = "Login" /\ field = "totp" ->
           { [NoFields EXCEPT !.totp = t] : t \in TotpFields }
      [] item.type # "Login" /\ field = "username" ->
           { [NoFields EXCEPT !.cardholderName = c] : c \in FieldValues }
      [] item.type # "Login" /\ field = "password" ->
           { [NoFields EXCEPT !.number = n] : n \in FieldValues }
      [] OTHER -> {NoFields}

\* generateTotp: null for an empty field and for a field no code can be made from
generateTotp(totpField) == IF totpField = "seed" THEN "code" ELSE Null

\* the switch of copyField
FieldValue(field, f) ==
    CASE field = "username" -> Coalesce(f.username, Coalesce(f.email, f.cardholderName))
      [] field = "password" -> Coalesce(f.password, f.number)
      [] OTHER -> IF f.totp \notin {Null, ""} THEN generateTotp(f.totp) ELSE Null
\* `No ${fieldName} available` and `${fieldName} copied!`
NoValueMessage(field) ==
    CASE field = "username" -> "No Username available"
      [] field = "password" -> "No Password available"
      [] OTHER -> "No TOTP available"
CopiedMessage(field) ==
    CASE field = "username" -> "Username copied!"
      [] field = "password" -> "Password copied!"
      [] OTHER -> "TOTP copied!"
CopyKeys == [username |-> "ctrl+u", password |-> "ctrl+p", totp |-> "ctrl+t"]

\* what the switch of copyField resolved, as the step records it: nothing, the
\* empty string or a value
Resolved(value) == IF value = Null THEN {} ELSE IF value = "" THEN {"empty"} ELSE {"value"}

\* fault variant: only an absent value counts as missing
MissingIfNull(value) == value = Null
\* !value
Missing(value) == value \in {Null, ""}

\* state.selectedItem ?? results[state.selectedIndex]?.item
ActiveItem ==
    IF state.selectedItem # NoItem THEN state.selectedItem
    ELSE IF state.selectedIndex \in 0..(Len(results) - 1)
    THEN results[state.selectedIndex + 1] ELSE NoItem

\* copyField: Ctrl+U / Ctrl+P / Ctrl+T in search and detail mode
CopyKey ==
    /\ KeyAccepted
    /\ PastConfirm
    /\ state.mode \in {"search", "detail"}
    /\ \E field \in DOMAIN CopyKeys :
          IF ActiveItem = NoItem \/ state.session = Null
          THEN /\ UiKey(CopyKeys[field], state, query, sortMode, FALSE)
               /\ UNCHANGED clip
          ELSE \E f \in FieldsOf(ActiveItem, field), copied \in BOOLEAN :
                  LET value == FieldValue(field, f)
                  IN IF Missing(value)
                     THEN /\ UiKeyOut(CopyKeys[field],
                                      ShowMessage(state, NoValueMessage(field)),
                                      query, sortMode, TRUE, {}, Resolved(value))
                          /\ UNCHANGED clip
                     ELSE /\ UiKeyOut(CopyKeys[field],
                                      ShowMessage(state,
                                         IF copied THEN CopiedMessage(field)
                                         ELSE "Copy failed"),
                                      query, sortMode, TRUE, {"clipboard"},
                                      Resolved(value)
                                        \cup (IF copied THEN {"copied"} ELSE {}))
                          /\ clip' = IF copied
                                     THEN scheduleClipboardClear(
                                              copyToClipboard(clip, value),
                                              state.config.clipboard_clear_seconds)
                                     ELSE clip
    /\ UNCHANGED <<ed, util>>

\* GenerateView: Ctrl+P copies the generated password and stays (handleGeneratorCopy)
GeneratorCopyKey ==
    /\ KeyAccepted
    /\ state.mode = "generate"
    /\ \E copied \in BOOLEAN :
          /\ UiKeyOut("ctrl+p",
                      ShowMessage(state, IF copied THEN "Password copied!" ELSE "Copy failed"),
                      query, sortMode, TRUE, {"clipboard"},
                      IF copied THEN {"copied"} ELSE {})
          /\ clip' = IF copied
                     THEN scheduleClipboardClear(copyToClipboard(clip, "secret"),
                                                 state.config.clipboard_clear_seconds)
                     ELSE clip
    /\ UNCHANGED <<ed, util>>

\* a clear timer is due: clearClipboard(); clipboardClearTimer = null
ClipboardClearFires ==
    /\ Alive
    /\ \E i \in 1..Len(clip.timers), cleared \in BOOLEAN :
          /\ clip.timers[i].left = 0
          /\ clip' = [clip EXCEPT
                        !.text = IF cleared THEN "" ELSE @,
                        !.timers = [j \in 1..(Len(clip.timers) - 1) |->
                                      [left |-> clip.timers[IF j < i THEN j ELSE j + 1].left,
                                       ref |-> FALSE]]]
          /\ lastEvent' = [kind |-> "clipboard-clear", key |-> Null,
                           calls |-> {"clipboard"},
                           out |-> IF cleared THEN {"cleared"} ELSE {}]
    /\ shown' = Null
    /\ UNCHANGED <<uiVars, sessionRef, timerVars, signalsOn, proc, pendingEffects,
                   agentVars, clock>>
    /\ UNCHANGED <<ed, util>>

\* a second of wall-clock time passes while a clear timer is pending; the queued
\* effects and the 50 ms callbacks have run long before
ClipTick ==
    /\ Alive
    /\ clip.timers # <<>>
    /\ \A i \in 1..Len(clip.timers) : clip.timers[i].left > 0
    /\ pendingEffects = {}
    /\ deferred = <<>>
    /\ ~exitingTimer
    /\ clip' = [clip EXCEPT
                  !.timers = [i \in 1..Len(clip.timers) |->
                                [clip.timers[i] EXCEPT !.left = @ - 1]],
                  !.age = Min(@ + 1, ClipDelay)]
    /\ Event("second", Null, {})
    /\ shown' = Null
    /\ UNCHANGED <<uiVars, sessionRef, timerVars, signalsOn, proc, pendingEffects,
                   agentVars, clock>>
    /\ UNCHANGED <<ed, util>>

----------------------------------------------------------------------------
(* openInEditor, step by step: the temporary file, the editor, the result *)

\* the texts of the model: up to MaxText pieces, each blank, the cancel mark or
\* other text
MaxText == 2
TextPieces == {" ", "# CANCEL", "x"}
EditorTexts == UNION { [1..n -> TextPieces] : n \in 0..MaxText }
\* result.status: 0, non-zero, or null (here -1) when a signal ended the editor
EditorStatuses == {0, 1, -1}

\* String.prototype.trim
Whitespace == {" ", "newline", "tab"}
RECURSIVE trimStart(_)
trimStart(t) == IF t # <<>> /\ Head(t) \in Whitespace THEN trimStart(Tail(t)) ELSE t
RECURSIVE trimEnd(_)
trimEnd(t) ==
    IF t # <<>> /\ t[Len(t)] \in Whitespace THEN trimEnd(SubSeq(t, 1, Len(t) - 1)) ELSE t
trim(t) == trimEnd(trimStart(t))

\* fault variant: the temporary file is left where it is
cleanupSkipped(e, unlinked) == e
\* cleanupTempFile: unlinkSync if the file exists; a throwing unlinkSync is ignored
cleanupTempFile(e, unlinked) ==
    IF ~e.file.exists THEN e
    ELSE IF unlinked THEN [e EXCEPT !.file = NoFile]
    ELSE [e EXCEPT !.faults = @ \cup {"unlink"}]

\* the catch block: cleanup, then the error as a result
Caught(e, fault, unlinked) ==
    [cleanupTempFile([e EXCEPT !.faults = @ \cup {fault}], unlinked) EXCEPT
        !.pc = "returned",
        !.result = [NoResult EXCEPT !.error = "error"]]

\* getSecureTempDir, before the try: the directory exists or is made, or mkdirSync throws
getSecureTempDir ==
    /\ ed.pc = "call"
    /\ \E made \in BOOLEAN :
          ed' = IF made THEN [ed EXCEPT !.pc = "write"]
                ELSE [ed EXCEPT !.pc = "returned", !.faults = {"mkdir"},
                                !.result = [NoResult EXCEPT !.thrown = TRUE]]
    /\ UNCHANGED <<hostVars, util>>

\* writeFileSync and chmodSync: the file is written, or one of them throws; a
\* failed write may leave an empty file behind
WriteTempFile ==
    /\ ed.pc = "write"
    /\ \E outcome \in {"written", "write", "truncated", "chmod"}, unlinked \in BOOLEAN :
          ed' = CASE outcome = "written" ->
                       [ed EXCEPT !.pc = "spawn", !.file = File(ed.content)]
                  [] outcome = "write" -> Caught(ed, "write", unlinked)
                  [] outcome = "truncated" ->
                       Caught([ed EXCEPT !.file = File(<<>>)], "write", unlinked)
                  [] OTHER ->
                       Caught([ed EXCEPT !.file = File(ed.content)], "chmod", unlinked)
    /\ UNCHANGED <<hostVars, util>>

\* spawnSync(editor, [tempFile]): the user saves a text, or not, or removes the
\* file; a status other than 0 is returned as an error after the cleanup
SpawnEditor ==
    /\ ed.pc = "spawn"
    /\ \E status \in EditorStatuses, unlinked \in BOOLEAN,
          saved \in {NoFile} \cup { File(t) : t \in EditorTexts } :
          LET e == [ed EXCEPT !.status = status, !.file = saved]
          IN ed' = IF status # 0
                   THEN [cleanupTempFile(e, unlinked) EXCEPT
                            !.pc = "returned",
                            !.result = [NoResult EXCEPT !.error = "Editor exited"]]
                   ELSE [e EXCEPT !.pc = "read"]
    /\ UNCHANGED <<hostVars, util>>

\* readFileSync, cleanup, and the check for a cancellation
ReadEdited ==
    /\ ed.pc = "read"
    /\ \E readable \in BOOLEAN, unlinked \in BOOLEAN :
          IF ~ed.file.exists \/ ~readable
          THEN ed' = Caught(ed, "read", unlinked)
          ELSE LET editedContent == ed.file.text
                   trimmed == trim(editedContent)
               IN ed' = [cleanupTempFile(ed, unlinked) EXCEPT
                           !.pc = "returned",
                           !.result =
                              IF trimmed = <<>> \/ Head(trimmed) = "# CANCEL"
                              THEN [NoResult EXCEPT !.success = TRUE, !.cancelled = TRUE]
                              ELSE [NoResult EXCEPT !.success = TRUE,
                                                    !.content = editedContent]]
    /\ UNCHANGED <<hostVars, util>>

----------------------------------------------------------------------------
(* utils/yaml.ts: itemToYaml, yamlToItem, itemsEqual *)

\* the strings of the model: up to MaxStr characters, among them the ones
\* escapeYamlValue treats and the letter n that follows the backslash of an
\* escaped newline
MaxStr == 2
YamlChars == {"a", "n", " ", "quote", "backslash", "newline", "tab"}
Strs == UNION { [1..k -> YamlChars] : k \in 0..MaxStr }
\* an absent property, a commented-out line, a scalar the parser cannot read
Undefined == <<"undefined">>
Commented == <<"#">>
Malformed == <<"malformed">>
\* x ?? ""
OrEmpty(x) == IF x = Undefined THEN <<>> ELSE x

\* String.prototype.replace(/c/g, r)
RECURSIVE ReplaceAll(_, _, _)
ReplaceAll(t, c, r) ==
    IF t = <<>> THEN <<>>
    ELSE (IF Head(t) = c THEN r ELSE <<Head(t)>>) \o ReplaceAll(Tail(t), c, r)

\* fault variant: the backslashes are not doubled
escapeWithoutBackslash(value) ==
    <<"quote">>
      \o ReplaceAll(ReplaceAll(ReplaceAll(value,
            "quote", <<"backslash", "quote">>),
            "newline", <<"backslash", "n">>),
            "tab", <<"backslash", "t">>)
      \o <<"quote">>
\* escapeYamlValue: backslashes first, then quotes, newlines and tabs, in quotes
escapeYamlValue(value) ==
    <<"quote">>
      \o ReplaceAll(ReplaceAll(ReplaceAll(ReplaceAll(value,
            "backslash", <<"backslash", "backslash">>),
            "quote", <<"backslash", "quote">>),
            "newline", <<"backslash", "n">>),
            "tab", <<"backslash", "t">>)
      \o <<"quote">>

\* parseYaml on the inside of a double-quoted scalar: the escapes are read back;
\* a bare quote ends the scalar early and a lone backslash is no escape
RECURSIVE Unescaped(_)
Unescaped(t) ==
    IF t = <<>> THEN <<>>
    ELSE IF Head(t) = "quote" THEN Malformed
    ELSE IF Head(t) # "backslash"
    THEN LET rest == Unescaped(Tail(t))
         IN IF rest = Malformed THEN Malformed ELSE <<Head(t)>> \o rest
    ELSE IF Len(t) < 2 \/ t[2] \notin {"backslash", "quote", "n", "t"} THEN Malformed
    ELSE LET rest == Unescaped(SubSeq(t, 3, Len(t)))
             c == CASE t[2] = "n" -> "newline" [] t[2] = "t" -> "tab" [] OTHER -> t[2]
         IN IF rest = Malformed THEN Malformed ELSE <<c>> \o rest
\* parseYaml on a double-quoted scalar
Scalar(text) == Unescaped(SubSeq(text, 2, Len(text) - 1))

\* String.prototype.split("\n")
RECURSIVE SplitLines(_)
SplitLines(t) ==
    IF \A i \in 1..Len(t) : t[i] # "newline" THEN <<t>>
    ELSE LET i == CHOOSE k \in 1..Len(t) :
                     t[k] = "newline" /\ \A j \in 1..(k - 1) : t[j] # "newline"
         IN <<SubSeq(t, 1, i - 1)>> \o SplitLines(SubSeq(t, i + 1, Len(t)))

\* a property that is set and not empty: if (login.username), ...
Truthy(x) == x \notin {Undefined, <<>>}
\* one line of the document for an optional string: the escaped value or a comment
OptionalLine(x) == IF Truthy(x) THEN escapeYamlValue(x) ELSE Commented

\* itemToYaml: the document line by line. header holds the lines the first
\* comment `# Bitpop - Edit Login: ${item.name}` becomes once the lines are
\* joined: the comment itself and, after each newline of the name, the rest of
\* the name on a line of its own
itemToYaml(item) ==
    [header |-> Tail(SplitLines(<<"#">> \o item.name)),
     name |-> escapeYamlValue(item.name),
     username |-> OptionalLine(item.username),
     password |-> OptionalLine(item.password),
     url |-> IF item.uris # <<>> THEN OptionalLine(item.uris[1]) ELSE Commented,
     totp_secret |-> OptionalLine(item.totp),
     notes |-> OptionalLine(item.notes),
     favorite |-> item.favorite,
     reprompt |-> (item.reprompt = 1),
     additional_urls |->
        IF Len(item.uris) > 1
        THEN [i \in 1..(Len(item.uris) - 1) |-> escapeYamlValue(item.uris[i + 1])]
        ELSE <<>>,
     custom_fields |->
        [i \in 1..Len(item.fields) |->
           [name |-> escapeYamlValue(item.fields[i].name),
            value |-> escapeYamlValue(OrEmpty(item.fields[i].value)),
            hidden |-> (item.fields[i].type = 1)]]]

\* yamlToItem returns null
NullYamlItem == [null |-> TRUE]

\* parsed.x && typeof parsed.x === "string" ? parsed.x : ""
StringOrEmpty(line) == IF line = Commented THEN <<>> ELSE Scalar(line)
NonBlank(x) == trim(x) # <<>>
\* the custom fields yamlToItem keeps
NamedField(f) == NonBlank(Scalar(f.name))

\* yamlToItem: null when the document does not parse to a mapping (a line that
\* is neither blank, nor a comment, nor a key, or a scalar that cannot be read)
\* or has no name; else the item with the name, the URLs, the notes and the
\* field names trimmed
yamlToItem(doc) ==
    LET scalars == {doc.name, doc.username, doc.password, doc.url, doc.totp_secret,
                    doc.notes}
                   \cup { doc.additional_urls[i] : i \in 1..Len(doc.additional_urls) }
                   \cup { doc.custom_fields[i].name : i \in 1..Len(doc.custom_fields) }
                   \cup { doc.custom_fields[i].value : i \in 1..Len(doc.custom_fields) }
        urls == (IF doc.url = Commented THEN <<>> ELSE <<doc.url>>) \o doc.additional_urls
        kept == SelectSeq(doc.custom_fields, NamedField)
    IN IF \/ \E i \in 1..Len(doc.header) : NonBlank(doc.header[i])
          \/ \E t \in scalars : t # Commented /\ Scalar(t) = Malformed
          \/ ~NonBlank(Scalar(doc.name))
       THEN NullYamlItem
       ELSE [name |-> trim(Scalar(doc.name)),
             username |-> StringOrEmpty(doc.username),
             password |-> StringOrEmpty(doc.password),
             totp |-> StringOrEmpty(doc.totp_secret),
             uris |-> LET parsedUrls == [i \in 1..Len(urls) |-> Scalar(urls[i])]
                          filled == SelectSeq(parsedUrls, NonBlank)
                      IN [i \in 1..Len(filled) |-> trim(filled[i])],
             favorite |-> doc.favorite,
             reprompt |-> IF doc.reprompt THEN 1 ELSE 0,
             notes |-> trim(StringOrEmpty(doc.notes)),
             fields |-> [i \in 1..Len(kept) |->
                           [name |-> trim(Scalar(kept[i].name)),
                            value |-> Scalar(kept[i].value),
                            type |-> IF kept[i].hidden THEN 1 ELSE 0]]]

\* itemsEqual: the fields that matter for editing, an absent one as ""
itemsEqual(original, edited) ==
    /\ original.name = edited.name
    /\ original.favorite = edited.favorite
    /\ original.reprompt = edited.reprompt
    /\ OrEmpty(original.notes) = OrEmpty(edited.notes)
    /\ OrEmpty(original.username) = OrEmpty(edited.username)
    /\ OrEmpty(original.password) = OrEmpty(edited.password)
    /\ OrEmpty(original.totp) = OrEmpty(edited.totp)
    /\ original.uris = edited.uris
    /\ Len(original.fields) = Len(edited.fields)
    /\ \A i \in 1..Len(original.fields) :
          /\ original.fields[i].name = edited.fields[i].name
          /\ OrEmpty(original.fields[i].value) = OrEmpty(edited.fields[i].value)
          /\ original.fields[i].type = edited.fields[i].type

\* the login items of the model: a plain one, and the ones that differ from it
\* in one property
PlainLogin == [name |-> <<"a">>, username |-> Undefined, password |-> Undefined,
               totp |-> Undefined, uris |-> <<>>, favorite |-> FALSE, reprompt |-> 0,
               notes |-> Undefined, fields |-> <<>>]
UriValues == {<<"a">>, <<"a", " ">>, <<"quote", "a">>, <<>>}
FieldTypes == 0..3
YamlItems ==
    { [PlainLogin EXCEPT !.name = t] : t \in Strs \ {<<>>} }
    \cup { [PlainLogin EXCEPT !.username = t] : t \in Strs \cup {Undefined} }
    \cup { [PlainLogin EXCEPT !.password = t] : t \in Strs \cup {Undefined} }
    \cup { [PlainLogin EXCEPT !.totp = t] : t \in Strs \cup {Undefined} }
    \cup { [PlainLogin EXCEPT !.notes = t] : t \in {<<"a">>, <<"a", " ">>, <<"quote">>} }
    \cup { [PlainLogin EXCEPT !.favorite = f, !.reprompt = r] :
              f \in BOOLEAN, r \in {0, 1} }
    \cup { [PlainLogin EXCEPT !.uris = u] :
              u \in UNION { [1..k -> UriValues] : k \in 1..2 } }
    \cup { [PlainLogin EXCEPT !.fields = << [name |-> n, value |-> v, type |-> ty] >>] :
              n \in {<<"a">>, <<"n", "backslash">>, <<"a", "tab">>},
              v \in {Undefined, <<>>, <<"quote">>, <<"newline", "a">>},
              ty \in FieldTypes }

\* handleEdit on the detailed item: itemToYaml, then the editor
YamlGenerated ==
    /\ util.pc = "item"
    /\ util' = [util EXCEPT !.pc = "yaml", !.yaml = itemToYaml(util.item)]
    /\ UNCHANGED <<hostVars, ed>>

\* the editor gave the document back as it was: yamlToItem
YamlParsed ==
    /\ util.pc = "yaml"
    /\ util' = [util EXCEPT !.pc = "parsed", !.parsed = yamlToItem(util.yaml)]
    /\ UNCHANGED <<hostVars, ed>>

\* handleEdit: an item came back and itemsEqual says it differs, so editItem is called
EditDecided ==
    /\ util.pc = "parsed"
    /\ util' = [util EXCEPT
                  !.pc = "decided",
                  !.sent = /\ util.parsed # NullYamlItem
                           /\ ~itemsEqual(util.item, util.parsed)]
    /\ UNCHANGED <<hostVars, ed>>

----------------------------------------------------------------------------
(* config.ts: loadConfig, validateConfig, isValidShortcut *)

\* the values parseYaml can give
JsUndefined == [type |-> "undefined"]
JsNull == [type |-> "null"]
JsNaN == [type |-> "number", num |-> 0, nan |-> TRUE]
JsNumber(n) == [type |-> "number", num |-> n, nan |-> FALSE]
JsString(t) == [type |-> "string", str |-> t]
JsArray(items) == [type |-> "array", items |-> items]
JsShortcut(key, search) == [type |-> "object", key |-> key, search |-> search]
JsMapping(hours, seconds, entries, shortcuts) ==
    [type |-> "object", auto_close_hours |-> hours, clipboard_clear_seconds |-> seconds,
     max_visible_entries |-> entries, shortcuts |-> shortcuts]

\* DEFAULT_CONFIG
DEFAULT_CONFIG == [auto_close_hours |-> JsNumber(4), clipboard_clear_seconds |-> JsNumber(30),
                   max_visible_entries |-> JsNumber(30), shortcuts |-> JsArray(<<>>)]

\* isValidShortcut: an object with a non-empty string key and a string search
isValidShortcut(shortcut) ==
    /\ shortcut.type = "object"
    /\ shortcut.key.type = "string"
    /\ shortcut.key.str # <<>>
    /\ shortcut.search.type = "string"

\* the tests of validateConfig that replace a value: typeof v !== "number" ||
\* v <= min (or v < min); a comparison with NaN is false
Below(v, min, strict) ==
    \/ v.type # "number"
    \/ ~v.nan /\ (IF strict THEN v.num < min ELSE v.num <= min)

\* { ...DEFAULT_CONFIG, ...parsed }: the recognized keys a mapping defines
Spread(parsed, key) ==
    IF parsed.type = "object" /\ parsed[key].type # "undefined"
    THEN parsed[key] ELSE DEFAULT_CONFIG[key]

\* fault variant: a value that is not a positive number is kept
validateNothing(parsed) ==
    [thrown |-> FALSE,
     config |-> [key \in DOMAIN DEFAULT_CONFIG |-> Spread(parsed, key)]]
\* validateConfig: the merge, the replacement of the invalid values, the filter
\* of the shortcuts; reading parsed.password_generation throws a TypeError when
\* parsed is null
validateConfig(parsed) ==
    LET hours == Spread(parsed, "auto_close_hours")
        seconds == Spread(parsed, "clipboard_clear_seconds")
        entries == Spread(parsed, "max_visible_entries")
        shortcuts == Spread(parsed, "shortcuts")
    IN [thrown |-> parsed.type \in {"null", "undefined"},
        config |->
          [auto_close_hours |->
              IF Below(hours, 0, FALSE) THEN DEFAULT_CONFIG.auto_close_hours ELSE hours,
           clipboard_clear_seconds |->
              IF Below(seconds, 0, TRUE) THEN DEFAULT_CONFIG.clipboard_clear_seconds
              ELSE seconds,
           max_visible_entries |->
              IF Below(entries, 0, FALSE) THEN DEFAULT_CONFIG.max_visible_entries
              ELSE entries,
           shortcuts |->
              IF shortcuts.type # "array" THEN DEFAULT_CONFIG.shortcuts
              ELSE JsArray(SelectSeq(shortcuts.items, isValidShortcut))]]

\* what parseYaml makes of the existing config files of the model: a syntax
\* error, null (an empty file or only comments), a scalar, a list, or a mapping
\* whose recognized keys are each missing, of a wrong type, out of range or valid
NumberValues == {JsUndefined, JsNull, JsString(<<"a">>), JsNaN, JsNumber(-1),
                 JsNumber(0), JsNumber(8)}
ShortcutValues == {JsShortcut(JsString(<<"g">>), JsString(<<"a">>)),
                   JsShortcut(JsString(<<>>), JsString(<<"a">>)),
                   JsShortcut(JsString(<<"g">>), JsUndefined),
                   JsString(<<"g">>), JsNull}
ConfigFiles ==
    {[type |-> "error"], JsNull, JsString(<<"a">>), JsNumber(8), JsArray(<<>>)}
    \cup { JsMapping(h, c, e, JsUndefined) :
              h \in NumberValues, c \in NumberValues, e \in {JsUndefined, JsNumber(0), JsNumber(8)} }
    \cup { JsMapping(JsUndefined, JsUndefined, e, JsUndefined) : e \in NumberValues }
    \cup { JsMapping(JsNumber(8), JsUndefined, JsUndefined, sc) :
              sc \in {JsNull, JsString(<<"a">>)}
                     \cup { JsArray(items) :
                              items \in UNION { [1..k -> ShortcutValues] : k \in 0..2 } } }

\* loadConfig: readFileSync and parseYaml; a syntax error gives the defaults
ConfigParsed ==
    /\ util.pc = "file"
    /\ util' = IF util.file.type = "error"
               THEN [util EXCEPT !.pc = "returned", !.config = DEFAULT_CONFIG]
               ELSE [util EXCEPT !.pc = "parsed"]
    /\ UNCHANGED <<hostVars, ed>>

\* loadConfig: return validateConfig(parsed)
ConfigValidated ==
    /\ util.pc = "parsed"
    /\ LET result == validateConfig(util.file)
       IN util' = [util EXCEPT !.pc = "returned", !.thrown = result.thrown,
                               !.config = IF result.thrown THEN @ ELSE result.config]
    /\ UNCHANGED <<hostVars, ed>>

---------------------------------------------------------------------------
(* useSearch as a function: the results of one query over any item collection *)

MaxItems == 3
SearchNames == { <<"a">>, <<"a", "b">>, <<"b">> }
SearchQueries == { <<>>, <<" ">>, <<" ", " ">>, <<"a">>, <<" ", "b">> }
\* the collections the agent can list: distinct ids, any names and revision dates
Collections ==
    UNION { { [i \in 1..k |-> Login(i, names[i], revs[i])] :
                names \in [1..k -> SearchNames], revs \in [1..k -> 1..2] } :
            k \in 0..MaxItems }

\* the score of a result: 0 without a query, the rank of the match otherwise
Score(item, q) == IF IsBlank(q) THEN 0 ELSE FuzzyScore(q, SearchText(item))
\* items.map(item => ({ item, score })) in the order of the results
Scored(items, q, sort) ==
    LET found == Results(items, q, sort)
    IN [i \in 1..Len(found) |-> [item |-> found[i], score |-> Score(found[i], q)]]
ItemsOf(found) == [i \in 1..Len(found) |-> found[i].item]

\* the results memo is computed for [query, items, sortMode]
SearchComputed ==
    /\ util.pc = "query"
    /\ util' = [util EXCEPT !.pc = "results",
                            !.results = Scored(util.items, util.query, util.sort)]
    /\ UNCHANGED <<hostVars, ed>>

\* the memo is computed again: for the same items, or for the items in the
\* order of the last results
SearchRepeated ==
    /\ util.pc = "results"
    /\ \E items \in {util.items, ItemsOf(util.results)} :
          util' = [util EXCEPT !.pc = "repeated",
                               !.again = Scored(items, util.query, util.sort)]
    /\ UNCHANGED <<hostVars, ed>>

---------------------------------------------------------------------------
(* showMessage and its expiry timer, with the timers of the event loop spelled
   out: App.showMessage and GenerateView.showMessage are the same code *)

MaxMessages == 4
\* setTimeout(..., 2000), in seconds
MessageDelay == 2

\* fault variant: the pending timer is left to run
keepTimeout(timers, ref) == timers
\* if (messageTimerRef.current) clearTimeout(messageTimerRef.current)
clearTimeout(timers, ref) == { t \in timers : t.id # ref }

\* showMessage(message), called by a handler or a 50 ms callback; the state
\* update is dropped once the component is unmounted
ShowMessageCalled ==
    /\ util.pc = "messages"
    /\ util.next <= MaxMessages
    /\ util' = [util EXCEPT
                   !.timers = clearTimeout(@, util.ref)
                              \cup {[id |-> util.next, left |-> MessageDelay]},
                   !.cleared = @ + Cardinality(util.timers \ clearTimeout(util.timers, util.ref)),
                   !.ref = util.next,
                   !.message = IF util.mounted THEN util.next ELSE @,
                   !.age = 0,
                   !.next = @ + 1]
    /\ UNCHANGED <<hostVars, ed>>

\* a timer is due: setState(message: null); messageTimerRef.current = null
MessageExpires ==
    /\ util.pc = "messages"
    /\ \E t \in util.timers :
          /\ t.left = 0
          /\ util' = [util EXCEPT !.timers = @ \ {t}, !.ref = 0, !.message = 0,
                                  !.expiredAt = IF util.message = 0 THEN @ ELSE util.age]
    /\ UNCHANGED <<hostVars, ed>>

\* a second passes; a due timer runs first
MessageTick ==
    /\ util.pc = "messages"
    /\ util.timers # {}
    /\ \A t \in util.timers : t.left > 0
    /\ util' = [util EXCEPT !.timers = { [t EXCEPT !.left = @ - 1] : t \in util.timers },
                            !.age = IF util.message = 0 THEN @ ELSE @ + 1]
    /\ UNCHANGED <<hostVars, ed>>

\* the cleanup of the effect at unmount: clearTimeout of the pending timer;
\* nothing is displayed any more
MessageUnmount ==
    /\ util.pc = "messages"
    /\ util.mounted
    /\ util' = [util EXCEPT !.timers = clearTimeout(@, util.ref), !.mounted = FALSE,
                            !.message = 0]
    /\ UNCHANGED <<hostVars, ed>>

Next ==
    \/ Mount
    \/ FlushPassiveEffects
    \/ ExitingTimerFires
    \/ AutoCloseFires
    \/ Signal
    \/ GlobalQuit
    \/ Terminate
    \/ MessageTimerFires
    \/ PasswordSubmit
    \/ DeferredUnlock
    \/ KeyIgnored
    \/ ConfirmDeleteKey
    \/ EscapeKey
    \/ BackspaceKey
    \/ EditConfigKey
    \/ ShortcutKey
    \/ GeneratorKey
    \/ GenerateViewKey
    \/ ClearQueryKey
    \/ DeleteKey
    \/ ShortcutModeKey
    \/ SortKey
    \/ TypeKey
    \/ JumpKey
    \/ NavigationKey
    \/ EnterKey
    \/ SyncKey
    \/ CreateKey
    \/ DeferredCreate
    \/ EditKey
    \/ DeferredEdit
    \/ DeferredDelete

Spec == Init /\ [][Next]_vars

NextClock == Next \/ Tick
SpecClock == InitClock /\ [][NextClock]_vars

\* the application next to another client of the same vault
NextRemote ==
    \/ Next
    \/ DeferredEditRaced
SpecRemote == Init /\ [][NextRemote]_vars

\* the application with its clipboard: the copy keys and the clear timer, with
\* the unlock, the views a copy is made from, the reload of the configuration
\* and the ways the program ends
NextClip ==
    \/ Mount
    \/ FlushPassiveEffects
    \/ ExitingTimerFires
    \/ AutoCloseFires
    \/ Signal
    \/ GlobalQuit
    \/ Terminate
    \/ MessageTimerFires
    \/ PasswordSubmit
    \/ DeferredUnlock
    \/ EscapeKey
    \/ EditConfigKey
    \/ GeneratorKey
    \/ GenerateViewKey
    \/ ShortcutModeKey
    \/ TypeKey
    \/ NavigationKey
    \/ EnterKey
    \/ CopyKey
    \/ GeneratorCopyKey
    \/ ClipboardClearFires
    \/ ClipTick
SpecClip == InitClip /\ [][NextClip]_vars

\* a call of openInEditor with any content, outside the application
EditorCall(content) == [EditorIdle EXCEPT !.pc = "call", !.content = content]
InitEditor ==
    /\ InitState
    /\ clock = [counted |-> FALSE, idle |-> 0]
    /\ clip = Clipboard(FALSE)
    /\ ed \in { EditorCall(content) : content \in EditorTexts }
    /\ util = NoCall
NextEditor ==
    \/ getSecureTempDir
    \/ WriteTempFile
    \/ SpawnEditor
    \/ ReadEdited
SpecEditor == InitEditor /\ [][NextEditor]_vars

\* an edit of any login item whose document the editor gives back unmodified
YamlCall(item) == [pc |-> "item", item |-> item, yaml |-> Commented,
                   parsed |-> NullYamlItem, sent |-> FALSE]
InitYaml ==
    /\ InitState
    /\ clock = [counted |-> FALSE, idle |-> 0]
    /\ clip = Clipboard(FALSE)
    /\ ed = EditorIdle
    /\ util \in { YamlCall(item) : item \in YamlItems }
NextYaml ==
    \/ YamlGenerated
    \/ YamlParsed
    \/ EditDecided
SpecYaml == InitYaml /\ [][NextYaml]_vars

\* loadConfig on any existing config file
ConfigCall(file) == [pc |-> "file", file |-> file, thrown |-> FALSE, config |-> JsUndefined]
InitConfig ==
    /\ InitState
    /\ clock = [counted |-> FALSE, idle |-> 0]
    /\ clip = Clipboard(FALSE)
    /\ ed = EditorIdle
    /\ util \in { ConfigCall(file) : file \in ConfigFiles }
NextConfig ==
    \/ ConfigParsed
    \/ ConfigValidated
SpecConfig == InitConfig /\ [][NextConfig]_vars

\* useSearch on any item collection, query and sort mode
SearchCall(items, q, sort) == [pc |-> "query", items |-> items, query |-> q, sort |-> sort,
                               results |-> <<>>, again |-> <<>>]
InitSearch ==
    /\ InitState
    /\ clock = [counted |-> FALSE, idle |-> 0]
    /\ clip = Clipboard(FALSE)
    /\ ed = EditorIdle
    /\ util \in { SearchCall(items, q, sort) :
                    items \in Collections, q \in SearchQueries, sort \in {"default", "date"} }
NextSearch ==
    \/ SearchComputed
    \/ SearchRepeated
SpecSearch == InitSearch /\ [][NextSearch]_vars

\* the message line of a mounted component: nothing shown, no timer
NoMessages == [pc |-> "messages", message |-> 0, age |-> 0, timers |-> {}, ref |-> 0,
               next |-> 1, cleared |-> 0, expiredAt |-> MessageDelay, mounted |-> TRUE]
InitMessage ==
    /\ InitState
    /\ clock = [counted |-> FALSE, idle |-> 0]
    /\ clip = Clipboard(FALSE)
    /\ ed = EditorIdle
    /\ util = NoMessages
NextMessage ==
    \/ ShowMessageCalled
    \/ MessageExpires
    \/ MessageTick
    \/ MessageUnmount
\* time passes and the event loop runs the timers that are due
SpecMessage ==
    /\ InitMessage
    /\ [][NextMessage]_vars
    /\ WF_vars(MessageTick)
    /\ WF_vars(MessageExpires)

\* the scheduler runs the queued effects and the 50 ms callbacks of the handlers:
\* every bw command ends, by itself or by the timeout of its spawnSync
SpecFair ==
    /\ Spec
    /\ WF_vars(FlushPassiveEffects)
    /\ WF_vars(DeferredCreate \/ DeferredEdit \/ DeferredDelete)

---------------------------------------------------------------------------
(* Properties *)

\* C1: when the process has terminated and the state held a session token,
\* lockVault has been called with that token
LockedBeforeTermination ==
    proc = "terminated" /\ state.session # Null => state.session \in Range(lockCalls)

\* C2: lockVault is called at most once in the lifetime of the process
LockedAtMostOnce == Len(lockCalls) <= 1

\* C3: a deferred callback that runs after the quit path has unmounted the
\* application makes no vault-agent call
NoAgentCallAfterQuit ==
    lastEvent.kind = "deferred" /\ proc = "unmounted" => lastEvent.calls = {}

\* C4: a termination signal or the auto-close timer that fires while the state
\* holds a session token locks the vault with it
ShutdownReadsSession ==
    lastEvent.kind \in {"signal", "auto-close"} /\ state.session # Null
        => "lock" \in lastEvent.calls /\ lockCalls[Len(lockCalls)] = state.session

\* C5: the auto-close timer fires on the running application only when the
\* configured hours have passed since the most recent keystroke
ActivityPostponesAutoClose ==
    [][lastEvent'.kind = "auto-close" /\ proc = "running"
         => clock.idle >= state.config.auto_close_hours]_vars

BusyModes == {"processing", "exiting", "loading"}

\* the keystroke of this step changed nothing: not the state, the query, the
\* pending callbacks, the exiting timer, the process or the agent
KeystrokeIgnored ==
    /\ state' = state
    /\ query' = query
    /\ deferred' = deferred
    /\ exitingTimer' = exitingTimer
    /\ proc' = proc
    /\ agent' = agent
    /\ lastEvent'.calls = {}

PendingMutations ==
    { i \in 1..Len(deferred) : deferred[i].op \in {"create", "edit", "delete"} }

\* C8: at most one create / edit / delete request is pending, and the mode is
\* processing for as long as it is
OneMutationInFlight ==
    /\ Cardinality(PendingMutations) <= 1
    /\ PendingMutations # {} => state.mode = "processing"

\* an edit request has been accepted and its deferred call is pending
EditInFlight ==
    /\ proc = "running"
    /\ PendingMutations # {}
    /\ deferred[1].op = "edit"
    /\ lastEvent.key = "ctrl+e"

\* C9: in search, detail, shortcut, generate, processing and confirm-delete mode
\* the session token is not null
SessionHeldInWorkingModes ==
    state.mode \in {"search", "detail", "shortcut", "generate", "processing",
                    "confirm-delete"}
        => state.session # Null

\* the generator was opened from the detail view of an unlocked vault
GeneratorOverDetail ==
    /\ proc = "running"
    /\ state.mode = "generate"
    /\ state.previousMode = "detail"
    /\ state.session = Token

\* C10: once the effects of an update have run, the selection index is not
\* negative and, when there are results, below their number
SelectionInRange ==
    proc = "running" /\ pendingEffects = {} =>
        /\ state.selectedIndex >= 0
        /\ Len(results) > 0 => state.selectedIndex < Len(results)

\* C11: a change of the query text queues the reset of the selection index, the
\* reset sets the index to 0, and no key is handled before the reset has run
QueryChangeResetsSelection ==
    [][/\ (proc' = "running" /\ query' # query => "query" \in pendingEffects')
       /\ (proc' = "running" /\ "query" \in pendingEffects /\ "query" \notin pendingEffects'
             => state'.selectedIndex = 0)
       /\ (proc = "running" /\ lastEvent'.kind = "key" => "query" \notin pendingEffects)]_vars

\* the query was changed while a lower entry was selected; the reset is queued
QueryChangedBelowTop ==
    /\ proc = "running"
    /\ "query" \in pendingEffects
    /\ state.selectedIndex > 0
    /\ lastEvent.kind = "key"

\* C12: when the unlock of a submitted password fails, the mode goes from
\* loading back to password with a non-empty error, the session stays null and
\* the items stay empty
UnlockFailureReturnsToPrompt ==
    [][proc = "running" /\ lastEvent'.kind = "deferred" /\ lastEvent'.calls = {"unlock"}
         => /\ state.mode = "loading"
            /\ state'.mode = "password"
            /\ state'.error \notin {Null, ""}
            /\ state'.session = Null
            /\ state'.items = <<>>]_vars

\* bw unlock ended with status 0 and printed nothing: the prompt is back with
\* the default error
PromptAfterEmptySession ==
    /\ proc = "running"
    /\ lastEvent.kind = "deferred"
    /\ lastEvent.calls = {"unlock"}
    /\ state.mode = "password"
    /\ state.error = DefaultUnlockError
    /\ agent = "locked"

\* C13: a submitted password moves the mode to loading; when the unlock and the
\* listing succeed the mode goes from loading to search with the session token
\* of the agent, the listed items and no error
UnlockAndListReachSearch ==
    [][/\ (proc = "running" /\ state.mode = "password" /\ lastEvent'.kind = "key"
             /\ lastEvent'.key = "return" => state'.mode = "loading")
       /\ (proc = "running" /\ lastEvent'.kind = "deferred"
             /\ lastEvent'.out = {"unlocked", "listed"}
             => /\ state.mode = "loading"
                /\ state'.mode = "search"
                /\ state'.session = Token
                /\ state'.items = vault
                /\ state'.error = Null)]_vars

\* the vault has just been unlocked and listed
SearchAfterUnlock ==
    /\ proc = "running"
    /\ lastEvent.out = {"unlocked", "listed"}
    /\ state.mode = "search"
    /\ state.session = Token
    /\ state.items = InitialVault

\* C14: when the unlock succeeds and the first listing fails, the mode becomes
\* error, the session just obtained is locked at once and the session of the
\* state stays null; a failed listing after a create / edit / delete leads to
\* search or detail, not to error
InitialListFailureIsFatal ==
    [][proc = "running" /\ lastEvent'.kind = "deferred"
         => /\ (lastEvent'.out = {"unlocked"}
                  => /\ state'.mode = "error"
                     /\ state'.error # Null
                     /\ state'.session = Null
                     /\ lockCalls' = Append(lockCalls, Token)
                     /\ agent' = "locked")
            /\ ("done" \in lastEvent'.out /\ "listed" \notin lastEvent'.out
                  => state'.mode \in {"search", "detail"})]_vars

\* the first listing failed: error mode, the new session locked again
ErrorAfterListFailure ==
    /\ proc = "running"
    /\ lastEvent.out = {"unlocked"}
    /\ state.mode = "error"
    /\ lockCalls = <<Token>>
    /\ sessionRef = Null

\* C15: once the mode is error it stays error; a keystroke other than the quit
\* keys Ctrl+D and Ctrl+C changes nothing; no agent request is queued and no
\* agent command other than the lock of the shutdown is run
ErrorIsTerminal ==
    [][state.mode = "error"
         => /\ state'.mode = "error"
            /\ lastEvent'.calls \subseteq {"lock"}
            /\ (lastEvent'.calls # {}
                  => lastEvent'.kind \in {"key", "signal", "auto-close", "exiting-timer"})
            /\ deferred' = deferred
            /\ (proc = "running" /\ lastEvent'.kind = "key" /\ lastEvent'.key \notin QuitKeys
                  => KeystrokeIgnored)]_vars

\* Escape was pressed in error mode
EscapeInErrorMode ==
    /\ proc = "running"
    /\ state.mode = "error"
    /\ lastEvent.kind = "key"
    /\ lastEvent.key = "escape"

\* C16: Ctrl+E in detail mode on an item whose type is not Login opens no
\* editor, runs no agent command and queues no agent request, keeps the mode,
\* the items and the selected item, and shows the message "Only login items can
\* be edited" under the message timer
NonLoginEditRefused ==
    [][(/\ proc = "running"
        /\ lastEvent'.kind = "key" /\ lastEvent'.key = "ctrl+e"
        /\ state.mode = "detail"
        /\ state.session # Null
        /\ state.selectedItem # NoItem
        /\ state.selectedItem.type # "Login")
         => /\ lastEvent'.calls = {}
            /\ deferred' = deferred
            /\ agent' = agent /\ vault' = vault /\ lockCalls' = lockCalls
            /\ state'.mode = "detail"
            /\ state'.items = state.items
            /\ state'.selectedItem = state.selectedItem
            /\ state' = [state EXCEPT !.message = Displayed]
            /\ shown' = "Only login items can be edited"
            /\ messageTimer']_vars

\* Ctrl+E was pressed on the card of the vault
EditRefusedOnCard ==
    /\ proc = "running"
    /\ lastEvent.kind = "key" /\ lastEvent.key = "ctrl+e"
    /\ state.mode = "detail"
    /\ state.selectedItem # NoItem
    /\ state.selectedItem.type = "Card"
    /\ shown = "Only login items can be edited"

\* C17: Ctrl+N in search mode with usable editor content moves the mode to
\* processing; when the create and the re-list succeed the mode becomes detail
\* on the created item if the agent returned it and search otherwise; when the
\* create fails the mode is search again with the message "Create failed" and
\* the items, the query and the session are as they were
CreateRoundTrip ==
    [][proc = "running"
         => /\ (lastEvent'.kind = "key" /\ lastEvent'.key = "ctrl+n"
                  /\ "content" \in lastEvent'.out
                  => state.mode = "search" /\ state'.mode = "processing")
            /\ (lastEvent'.kind = "deferred" /\ "create" \in lastEvent'.calls
                  => /\ state.mode = "processing"
                     /\ ({"done", "listed"} \subseteq lastEvent'.out
                           => IF "item" \in lastEvent'.out
                              THEN /\ state'.mode = "detail"
                                   /\ state'.selectedItem = vault'[Len(vault')]
                                   /\ state'.selectedItem \in Range(state'.items)
                                   /\ state'.selectedItem \notin Range(state.items)
                              ELSE /\ state'.mode = "search"
                                   /\ state'.selectedItem = NoItem)
                     /\ ("done" \notin lastEvent'.out
                           => /\ state'.mode = "search"
                              /\ shown' = "Create failed"
                              /\ state'.items = state.items
                              /\ state'.session = state.session
                              /\ query' = query
                              /\ vault' = vault))]_vars

\* the created item was returned and is shown in detail
CreatedItemInDetail ==
    /\ proc = "running"
    /\ lastEvent.kind = "deferred"
    /\ lastEvent.out = {"done", "item", "listed"}
    /\ "create" \in lastEvent.calls
    /\ state.mode = "detail"
    /\ Len(state.items) = Len(InitialVault) + 1
    /\ state.selectedItem = state.items[Len(state.items)]

DeleteKeyOnlyAsks ==
    proc = "running" /\ lastEvent'.kind = "key" /\ lastEvent'.key = "d"
      /\ state.mode = "detail"
      => /\ state' = [state EXCEPT !.mode = "confirm-delete"]
         /\ lastEvent'.calls = {}
         /\ deferred' = deferred
         /\ vault' = vault

\* the answer of the key of this step to the confirmation: y / Y starts the
\* delete, another key cancels it
ConfirmationAnswered ==
    IF lastEvent'.key \in {"y", "Y"}
    THEN /\ state'.mode = "processing"
         /\ deferred' = Append(deferred, Job("delete", state.session, state.selectedItem))
    ELSE /\ state'.mode = "detail"
         /\ shown' = "Delete cancelled"
         /\ state'.selectedItem = state.selectedItem
         /\ lastEvent'.calls = {}
         /\ deferred' = deferred
         /\ vault' = vault

\* a delete the agent carried out ends in the search view on its first row
DeleteEndsInSearch ==
    proc = "running" /\ lastEvent'.kind = "deferred" /\ "delete" \in lastEvent'.calls
      /\ "done" \in lastEvent'.out
      => /\ state.mode = "processing"
         /\ state'.mode = "search"
         /\ state'.selectedIndex = 0
         /\ state'.selectedItem = NoItem

RefreshFailureKeepsSnapshot ==
    [][proc = "running" /\ lastEvent'.kind = "deferred"
          /\ "done" \in lastEvent'.out /\ "listed" \notin lastEvent'.out
         => /\ state'.items = state.items
            /\ state'.session = state.session
            /\ messageTimer'
            /\ CASE "create" \in lastEvent'.calls
                      -> /\ state'.mode = "search"
                         /\ shown' = "Created but failed to refresh list"
                 [] "edit" \in lastEvent'.calls
                      -> /\ state'.mode = "detail"
                         /\ shown' = "Updated but failed to refresh list"
                 [] OTHER
                      -> /\ "delete" \in lastEvent'.calls
                         /\ state'.mode = "search"
                         /\ shown' = "Deleted but failed to refresh list"]_vars

\* the agent deleted an item and the re-list failed: the items still hold it
StaleListAfterDelete ==
    /\ proc = "running"
    /\ lastEvent.kind = "deferred"
    /\ lastEvent.out = {"done"}
    /\ "delete" \in lastEvent.calls
    /\ state.mode = "search"
    /\ state.items = InitialVault
    /\ Len(vault) < Len(state.items)

\* the 50 ms callback of a create / edit / delete is pending
PendingMutation ==
    /\ deferred # <<>>
    /\ Head(deferred).op \in {"create", "edit", "delete"}

\* C21: processing mode is left for search or detail mode, unless the program is
\* quit first: whatever the agent answers to a create, edit or delete, and
\* whether or not the re-list succeeds
\* and a request the agent refused leads back to the mode it came from (detail
\* for a delete), with the items, the selected item and the session kept
ProcessingEnds ==
    /\ [](proc = "running" /\ state.mode = "processing" => PendingMutation)
    /\ (proc = "running" /\ state.mode = "processing")
          ~> (proc # "running" \/ state.mode \in {"search", "detail"})
    /\ [][proc = "running" /\ lastEvent'.kind = "deferred"
             /\ lastEvent'.calls \in {{"create"}, {"edit"}, {"delete"}}
            => /\ state.mode = "processing"
               /\ state' = [state EXCEPT
                              !.mode = IF lastEvent'.calls = {"create"}
                                       THEN "search" ELSE "detail",
                              !.message = Displayed]]_vars

\* the agent refused a request and processing mode was left
ProcessingLeftAfterRefusal ==
    /\ proc = "running"
    /\ lastEvent.kind = "deferred"
    /\ lastEvent.calls \in {{"create"}, {"edit"}, {"delete"}}
    /\ state.mode \in {"search", "detail"}

\* C22: Ctrl+G in search or detail mode enters generate mode and records the
\* mode it came from; Escape, Backspace and Enter in generate mode return to
\* the recorded mode; the selected item does not change from the Ctrl+G to the
\* return
GeneratorReturnsToInvoker ==
    [][proc = "running"
         => /\ (lastEvent'.kind = "key" /\ lastEvent'.key = "ctrl+g"
                  /\ state.mode \in {"search", "detail"}
                  => state' = [state EXCEPT !.mode = "generate",
                                            !.previousMode = state.mode])
            /\ (state.mode = "generate"
                  => /\ state.previousMode \in {"search", "detail"}
                     /\ (proc' = "running" => state'.selectedItem = state.selectedItem))
            /\ (state.mode = "generate" /\ lastEvent'.kind = "key"
                  /\ lastEvent'.key \in {"escape", "backspace", "return"}
                  => /\ state'.mode = state.previousMode
                     /\ state'.previousMode = Null
                     /\ state'.items = state.items
                     /\ query' = query)]_vars

\* Enter in the generator opened over the detail view: the detail view is back
BackInDetailAfterGeneratorCopy ==
    /\ proc = "running"
    /\ lastEvent.kind = "key" /\ lastEvent.key = "return"
    /\ shown = "Password copied!"
    /\ state.mode = "detail"
    /\ state.selectedItem # NoItem
    /\ state.previousMode = Null

\* the modes in which the user drives the program
InteractiveModes == {"password", "search", "detail", "shortcut", "generate", "confirm-delete"}

\* Escape in search mode shows the exiting indicator, and exiting mode is kept
EscapeShowsExiting ==
    /\ (lastEvent'.kind = "key" /\ lastEvent'.key = "escape" /\ state.mode = "search"
          => state'.mode = "exiting" /\ proc' = "running")
    /\ (state.mode = "exiting" => state'.mode = "exiting")

\* C23: Ctrl+D / Ctrl+C in an interactive mode, and Escape in search mode, move
\* the mode to exiting with the program still running; the program is quit by a
\* key only from exiting mode, by the timer of the exiting effect; exiting mode
\* is never left for another mode
QuitPassesThroughExiting ==
    [][proc = "running"
         => /\ (lastEvent'.kind = "key" /\ lastEvent'.key \in QuitKeys
                  /\ state.mode \in InteractiveModes
                  => state'.mode = "exiting" /\ proc' = "running")
            /\ EscapeShowsExiting
            /\ (lastEvent'.kind \in {"key", "exiting-timer"} /\ proc' # "running"
                  => state.mode = "exiting" /\ lastEvent'.kind = "exiting-timer")]_vars

\* what the code does keep of it: the Escape path
EscapePassesThroughExiting ==
    [][proc = "running" => EscapeShowsExiting]_vars

\* C24: Enter in search mode with at least one result moves to detail mode on
\* the result at the selection index; with no result it changes nothing
EnterOpensSelection ==
    [][proc = "running" /\ lastEvent'.kind = "key" /\ lastEvent'.key = "return"
          /\ state.mode = "search"
         => IF Len(results) > 0
            THEN /\ proc' = "running"
                 /\ state'.mode = "detail"
                 /\ state.selectedIndex \in 0..(Len(results) - 1)
                 /\ state'.selectedItem = results[state.selectedIndex + 1]
            ELSE /\ state' = state
                 /\ query' = query
                 /\ proc' = proc]_vars

TriggeredShortcuts ==
    { i \in 1..Len(state.config.shortcuts) :
        Lower(state.config.shortcuts[i].key) = Lower(lastEvent'.key) }

\* the key of this step was looked up among the shortcuts: a match sets the
\* query to the search string of the first match and moves to search mode with
\* index 0, no match changes nothing
ShortcutLookedUp ==
    IF TriggeredShortcuts # {}
    THEN /\ state' = [state EXCEPT !.mode = "search", !.selectedIndex = 0]
         /\ \E i \in TriggeredShortcuts :
               /\ \A j \in TriggeredShortcuts : i <= j
               /\ query' = state.config.shortcuts[i].search
    ELSE /\ state' = state
         /\ query' = query

\* the keys that shortcut mode handles before the lookup
KeysBeforeShortcuts == QuitKeys \cup {"escape", "backspace", "ctrl+e"}

\* C26 (as stated): in shortcut mode a key that matches a shortcut's trigger,
\* whatever the case, sets the query to its search string and moves to search
\* mode with index 0; every key that matches none leaves mode, query and
\* selection unchanged
EveryKeyIsLookedUp ==
    [][proc = "running" /\ lastEvent'.kind = "key" /\ state.mode = "shortcut"
         => ShortcutLookedUp]_vars

\* C26 (amended): the same for every key other than Ctrl+D / Ctrl+C (quit),
\* Escape and Backspace (back to search) and Ctrl+E (edit the configuration),
\* which shortcut mode handles before the lookup
OtherKeysAreLookedUp ==
    [][proc = "running" /\ lastEvent'.kind = "key" /\ state.mode = "shortcut"
          /\ lastEvent'.key \notin KeysBeforeShortcuts
         => ShortcutLookedUp]_vars

\* the upper-case key of a lower-case trigger ran the shortcut
ShortcutRunByUpperCase ==
    /\ proc = "running"
    /\ lastEvent.kind = "key" /\ lastEvent.key = "A"
    /\ state.mode = "search"
    /\ query = StartConfig.shortcuts[1].search
    /\ state.config = StartConfig
    /\ "query" \in pendingEffects

\* the digit of an Alt+digit key
JumpDigit(k) == CASE k = "alt+1" -> 1 [] k = "alt+2" -> 2 [] OTHER -> 0

\* the result index the Alt+digit key of this step stands for
JumpTarget ==
    LET half == state.config.max_visible_entries \div 2
        top == IF state.selectedIndex - half > 0 THEN state.selectedIndex - half ELSE 0
        digit == JumpDigit(lastEvent'.key)
    IN top + (IF digit = 0 THEN 9 ELSE digit - 1)

CopyKeyNames == { CopyKeys[field] : field \in DOMAIN CopyKeys }
FieldOfKey(k) == CHOOSE field \in DOMAIN CopyKeys : CopyKeys[field] = k

\* a copy key was pressed in search or detail mode with an active item, and the
\* switch of copyField resolved nothing or the empty string
CopyWithoutValue ==
    /\ proc = "running"
    /\ state.mode \in {"search", "detail"}
    /\ ActiveItem # NoItem
    /\ state.session # Null
    /\ lastEvent'.kind = "key"
    /\ lastEvent'.key \in CopyKeyNames
    /\ lastEvent'.out \subseteq {"empty"}

\* C28: in search or detail mode a copy of the username, the password or the
\* TOTP code for which the active item resolves no value shows the message
\* "No <Field> available" and starts its timer, runs no clipboard command, leaves
\* the clipboard and its clear timers as they were, and changes nothing else of
\* the state: the mode stays, no error is set
NoValueCopyOnlyShowsMessage ==
    [][CopyWithoutValue
         => /\ shown' = NoValueMessage(FieldOfKey(lastEvent'.key))
            /\ messageTimer'
            /\ state' = [state EXCEPT !.message = Displayed]
            /\ state'.mode # "error"
            /\ lastEvent'.calls = {}
            /\ clip' = clip]_vars

\* an empty password was asked for in detail mode while the clear timer of an
\* earlier copy is pending: the message is shown, the timer is left alone
NoPasswordShownWhileTimerPends ==
    /\ proc = "running"
    /\ state.mode = "detail"
    /\ lastEvent.kind = "key"
    /\ lastEvent.key = "ctrl+p"
    /\ lastEvent.out = {"empty"}
    /\ shown = "No Password available"
    /\ Len(clip.timers) = 1
    /\ clip.text = "v"

\* a copy to the clipboard succeeded in the step: copyField, or the generator's
\* Enter or Ctrl+P
CopySucceeded == lastEvent'.kind = "key" /\ "copied" \in lastEvent'.out

\* the clear timer is armed, rearmed and fired as scheduleClipboardClear says:
\* after a successful copy with a delay > 0 exactly one timer is live, due one
\* full delay later (the pending one was cancelled); with a delay of 0 none is
\* live; a timer fires only when a full delay has passed since the most recent
\* successful copy, and leaves no timer behind
ClearTimerStep ==
    /\ (CopySucceeded /\ state.config.clipboard_clear_seconds > 0
          => clip'.timers = << [left |-> state.config.clipboard_clear_seconds,
                                ref |-> TRUE] >>)
    /\ (CopySucceeded /\ state.config.clipboard_clear_seconds = 0
          => clip'.timers = <<>>)
    /\ (lastEvent'.kind = "clipboard-clear"
          => clip.age = ClipDelay /\ clip'.timers = <<>>)
ClearTimerDiscipline == [][ClearTimerStep]_vars

\* a pending clear is carried out: a live timer goes away only by firing or by
\* the next successful copy
PendingClearKept ==
    clip.timers # <<>> /\ clip'.timers = <<>>
      => lastEvent'.kind = "clipboard-clear" \/ CopySucceeded

\* C29 (as stated): after a successful copy with a delay > 0 exactly one clear
\* timer is live; a new copy cancels the pending timer and rearms it; the
\* clipboard is overwritten once, one full delay after the most recent
\* successful copy and never earlier, so the pending clear is not dropped; with
\* a delay of 0 no clear is scheduled
ClipboardClearedOnceAfterDelay ==
    [][ClearTimerStep /\ PendingClearKept]_vars

\* the process was ended by a signal while the copied value was in the clipboard
\* and its clear was pending
SecretLeftAfterSignal ==
    /\ proc = "terminated"
    /\ lastEvent.kind = "signal"
    /\ clip.text \in {"v", "code", "secret"}
    /\ clip.timers = <<>>
    /\ clip.age < ClipDelay

\* openInEditor has returned
EditorReturned == ed.pc = "returned"
\* the editor left with a status other than 0, or writing or reading the
\* temporary file failed
EditorFailed ==
    ed.status # 0 \/ ed.faults \cap {"write", "chmod", "read"} # {}
\* the failure came back as an error result
ErrorReturned ==
    /\ ~ed.result.thrown
    /\ ~ed.result.success
    /\ ed.result.error # ""

RoundTripRejected ==
    /\ proc = "running"
    /\ lastEvent'.kind = "key"
    /\ lastEvent'.calls = {"editor"}
    /\ lastEvent'.out \cap {"error", "cancelled", "invalid"} # {}

\* C31: a create or an edit whose editor round trip ends in an editor error, a
\* cancellation or content that fails validation is rejected before any mutating
\* call: no callback is queued for createItem / editItem, the agent is not
\* called, processing mode is not entered, and the mode, the detailed item and
\* the items are unchanged; only a message is shown
RejectedBeforeAnyMutation ==
    [][RoundTripRejected
         => /\ deferred' = deferred
            /\ "content" \notin lastEvent'.out
            /\ state' = [state EXCEPT !.message = Displayed]
            /\ state'.mode # "processing"
            /\ shown' \in {"Editor error", "Create cancelled", "Edit cancelled",
                           "Invalid YAML or missing required fields"}
            /\ UNCHANGED agentVars]_vars

\* an edit was given content without a name: the detail view stays, with a message
InvalidEditRejected ==
    /\ proc = "running"
    /\ lastEvent.kind = "key"
    /\ lastEvent.key = "ctrl+e"
    /\ lastEvent.out = {"invalid"}
    /\ state.mode = "detail"
    /\ state.selectedItem # NoItem
    /\ deferred = <<>>
    /\ shown = "Invalid YAML or missing required fields"

\* yamlToItem has run on the document itemToYaml made of util.item
RoundTripDone == util.pc \in {"parsed", "decided"}

\* the name, the login credentials, the TOTP seed, the flags, the URI list and
\* the custom fields of the parsed item are those of the original (an absent
\* string counting as the empty one)
Reproduced(original, parsed) ==
    /\ parsed # NullYamlItem
    /\ parsed.name = original.name
    /\ parsed.username = OrEmpty(original.username)
    /\ parsed.password = OrEmpty(original.password)
    /\ parsed.totp = OrEmpty(original.totp)
    /\ parsed.favorite = original.favorite
    /\ parsed.reprompt = original.reprompt
    /\ parsed.uris = original.uris
    /\ Len(parsed.fields) = Len(original.fields)
    /\ \A i \in 1..Len(original.fields) :
          /\ parsed.fields[i].name = original.fields[i].name
          /\ parsed.fields[i].value = OrEmpty(original.fields[i].value)
          /\ parsed.fields[i].type = original.fields[i].type

\* the items the round trip keeps: no white space around the name, the URIs and
\* the field names, no empty URI, and custom fields of type text or hidden only
Untrimmed(t) == t # <<>> /\ trim(t) = t
KeptByRoundTrip(item) ==
    /\ Untrimmed(item.name)
    /\ \A i \in 1..Len(item.uris) : Untrimmed(item.uris[i])
    /\ \A i \in 1..Len(item.fields) :
          Untrimmed(item.fields[i].name) /\ item.fields[i].type \in {0, 1}

\* for the items of KeptByRoundTrip the round trip is exact, with quotes,
\* backslashes, newlines and tabs inside the values
RoundTripOfKeptItems ==
    RoundTripDone /\ KeptByRoundTrip(util.item) => Reproduced(util.item, util.parsed)

\* C33 (as stated): for all items, itemToYaml followed by yamlToItem reproduces
\* the original's name, username, password, TOTP seed, favorite and reprompt
\* flags, URI list and custom fields exactly, also when the values contain
\* quotes, backslashes, newlines or tabs
RoundTripLaw ==
    RoundTripDone => Reproduced(util.item, util.parsed)

\* C32 (as stated): for every login item, when the editor returns the generated
\* YAML unmodified, handleEdit finds no changes and issues no editItem call
UnmodifiedYamlIsNoChange ==
    util.pc = "decided" => ~util.sent

\* loadConfig has returned or thrown
ConfigLoaded == util.pc = "returned"
\* a number the claim counts as valid for a key: above min, or not below it
ValidNumber(v, min, strict) ==
    v.type = "number" /\ ~v.nan /\ (IF strict THEN v.num > min ELSE v.num >= min)
\* the value loadConfig is to return for a numeric key: the one of the file when
\* the file is a mapping that defines it validly, else the default
Expected(key, min, strict) ==
    IF util.file.type = "object" /\ ValidNumber(util.file[key], min, strict)
    THEN util.file[key] ELSE DEFAULT_CONFIG[key]
ExpectedShortcuts ==
    IF util.file.type = "object" /\ util.file.shortcuts.type = "array"
    THEN JsArray(SelectSeq(util.file.shortcuts.items, isValidShortcut))
    ELSE DEFAULT_CONFIG.shortcuts
ConfigAsExpected ==
    /\ ~util.thrown
    /\ util.config.auto_close_hours = Expected("auto_close_hours", 0, TRUE)
    /\ util.config.clipboard_clear_seconds = Expected("clipboard_clear_seconds", 0, FALSE)
    /\ util.config.max_visible_entries = Expected("max_visible_entries", 0, TRUE)
    /\ util.config.shortcuts = ExpectedShortcuts
    /\ ValidNumber(util.config.auto_close_hours, 0, TRUE)
    /\ ValidNumber(util.config.max_visible_entries, 0, TRUE)
    /\ ValidNumber(util.config.clipboard_clear_seconds, 0, FALSE)
    /\ \A i \in 1..Len(util.config.shortcuts.items) :
          isValidShortcut(util.config.shortcuts.items[i])

\* the files loadConfig handles as the claim says: the ones that do not parse to
\* null and hold no NaN
FileWithoutNullOrNaN ==
    /\ util.file.type # "null"
    /\ util.file.type = "object"
         => \A key \in {"auto_close_hours", "clipboard_clear_seconds", "max_visible_entries"} :
               util.file[key].type = "number" => ~util.file[key].nan
ConfigOfHandledFiles == ConfigLoaded /\ FileWithoutNullOrNaN => ConfigAsExpected

\* C34 (as stated): loadConfig never fails on an existing config file: a file that
\* cannot be parsed or parses to something other than a mapping yields the
\* defaults; each recognized key whose value is missing or invalid gets its
\* default and the valid keys keep the values of the file; the returned config
\* has auto_close_hours > 0, max_visible_entries > 0, clipboard_clear_seconds >= 0
\* and only well-formed shortcuts
LoadConfigNeverFails == ConfigLoaded => ConfigAsExpected

---------------------------------------------------------------------------
(* The session config *)

\* Ctrl+E in Shortcut mode has been handled
ReloadStep ==
    /\ proc = "running"
    /\ state.mode = "shortcut"
    /\ lastEvent'.kind = "key"
    /\ lastEvent'.key = "ctrl+e"
\* the machine is in Search with the session, the items and the query it had,
\* and the config is the loaded one or, after a failed editor, the old one
ReloadedOrKept ==
    /\ proc' = "running"
    /\ state'.mode = "search"
    /\ state'.session = state.session
    /\ state'.items = state.items
    /\ query' = query
    /\ state'.config \in Configs
    /\ (shown' = "Editor exited with code" => state'.config = state.config)
\* no other step of the running application changes the config
OnlyReloadChangesConfig ==
    proc' = "running" /\ state'.config # state.config => ReloadStep

\* what the code guarantees: a reload in which loadConfig returns
ReloadThatReturns ==
    [][/\ (ReloadStep /\ "thrown" \notin lastEvent'.out => ReloadedOrKept)
       /\ OnlyReloadChangesConfig]_vars

\* C35: a config reload (Ctrl+E in Shortcut mode) replaces the whole config
\* with the loaded one or leaves it unchanged, ends in Search with the session
\* token, the item collection and the query unchanged, and no other operation
\* changes the config
ConfigReloadIsAtomic ==
    [][(ReloadStep => ReloadedOrKept) /\ OnlyReloadChangesConfig]_vars

---------------------------------------------------------------------------
(* Search without a query *)

\* a search without a query in the default sort mode has been computed
BlankSearchDone ==
    /\ util.pc \in {"results", "repeated"}
    /\ Range(util.query) \subseteq {" "}
    /\ util.sort = "default"
\* name ascending under localeCompare: no result is followed by a smaller name
NameAscending(found) ==
    \A i, j \in 1..Len(found) : i < j => ~ByName(found[j].item, found[i].item)
\* the results hold every item once
SameItems(found, items) ==
    /\ Len(found) = Len(items)
    /\ { found[i].item : i \in 1..Len(found) } = Range(items)

\* C36: with an empty or whitespace-only query in the default sort mode the
\* search returns as many results as there are items, each with score 0, in
\* ascending order of name, and a repeated search returns the same ordering
BlankQueryListsAllByName ==
    BlankSearchDone =>
        /\ SameItems(util.results, util.items)
        /\ \A i \in 1..Len(util.results) : util.results[i].score = 0
        /\ NameAscending(util.results)
        /\ (util.pc = "repeated" => util.again = util.results)

\* three items listed out of order, searched twice with a whitespace query
WhitespaceSearchRepeated ==
    /\ BlankSearchDone
    /\ util.pc = "repeated"
    /\ util.query = <<" ", " ">>
    /\ Len(util.items) = 3
    /\ ItemsOf(util.results) # util.items
    /\ util.items[1].name = util.items[3].name

---------------------------------------------------------------------------
(* The item collection *)

\* a deferred callback whose create, edit or delete the agent carried out
MutationDone == lastEvent'.kind = "deferred" /\ "done" \in lastEvent'.out
\* a list call has answered in this step: after the unlock, after a mutation, or
\* in a sync
ListAnswered ==
    \/ lastEvent'.kind = "deferred" /\ "listed" \in lastEvent'.out
    \/ /\ lastEvent'.kind = "key"
       /\ lastEvent'.key = "ctrl+r"
       /\ "list" \in lastEvent'.calls
       /\ shown' = "Synced!"
\* the collection is what the agent listed
ReplacedWholesale == ListAnswered /\ state'.items = vault'

\* C37: a create, edit or delete the agent carried out is followed by a list
\* call in the callback that leaves Processing, and the items of the running
\* application change only by being replaced with the answer of a list call
ItemsOnlyFromList ==
    [][/\ (MutationDone =>
             /\ "list" \in lastEvent'.calls
             /\ (proc = "running" => state.mode = "processing"))
       /\ (proc' = "running" /\ state'.items # state.items => ReplacedWholesale)]_vars

\* a delete was carried out and the re-list replaced the items
ItemsReplacedAfterDelete ==
    /\ proc = "running"
    /\ lastEvent.kind = "deferred"
    /\ lastEvent.calls = {"delete", "list"}
    /\ lastEvent.out = {"done", "listed"}
    /\ state.mode = "search"
    /\ state.items = vault
    /\ Len(state.items) = Len(InitialVault) - 1

---------------------------------------------------------------------------
(* The message expiry timer *)

\* at most one expiry timer is pending, and it is the one the ref holds
OneMessageTimer ==
    /\ Cardinality(util.timers) <= 1
    /\ \A t \in util.timers : t.id = util.ref
\* an expiry only ever cleared a message that had been shown for the full delay
ClearedAfterFullDelay == util.expiredAt = MessageDelay
\* a message on display has its own timer pending
ShownMessageHasTimer ==
    util.message # 0 => \E t \in util.timers : t.id = util.message

\* C38: a new message clears the pending expiry timer and arms its own, so at
\* most one expiry timer is pending, an expiry never clears a message that has
\* not been shown for the full delay, and every message on display is cleared
\* in the end unless the component is unmounted first
MessageTimerPreempted ==
    /\ [](util.pc = "messages" =>
            OneMessageTimer /\ ClearedAfterFullDelay /\ ShownMessageHasTimer)
    /\ \A m \in 1..MaxMessages : (util.pc = "messages" /\ util.message = m) ~> (util.message # m)

\* a message replaced another whose timer was pending, and has expired in turn
LaterMessageExpired ==
    /\ util.pc = "messages"
    /\ util.mounted
    /\ util.cleared >= 1
    /\ util.next = 3
    /\ util.message = 0
    /\ util.timers = {}
    /\ util.ref = 0

---------------------------------------------------------------------------
(* The detailed item *)

\* Detail or ConfirmDelete without a detailed item
WithoutItem(st) == st.mode \in {"detail", "confirm-delete"} /\ st.selectedItem = NoItem
\* the edit callback found the list without the edited item
ItemLost == lastEvent'.kind = "deferred" /\ "lost" \in lastEvent'.out
\* the mode the generator returns to
Underneath(st) == IF st.mode = "generate" THEN [st EXCEPT !.mode = st.previousMode] ELSE st

---------------------------------------------------------------------------
(* The previous mode *)

\* the step opens or leaves the generator
GeneratorStep ==
    /\ lastEvent'.kind = "key"
    /\ \/ state.mode \in {"search", "detail"} /\ state'.mode = "generate"
       \/ state.mode = "generate" /\ state'.mode = state.previousMode

\* C40: the previous mode is set exactly while the mode is generate, it is then
\* search or detail, and only opening and leaving the generator change it
PreviousModeOnlyInGenerate ==
    [][proc' = "running" =>
         /\ (state'.previousMode # Null <=> state'.mode = "generate")
         /\ state'.previousMode \in {Null, "search", "detail"}
         /\ (state'.previousMode # state.previousMode => GeneratorStep)]_vars

\* the generator was opened from the detail view and left again after a copy
GeneratorLeftToDetail ==
    /\ proc = "running"
    /\ lastEvent.kind = "key"
    /\ lastEvent.key = "return"
    /\ "copied" \in lastEvent.out
    /\ state.mode = "detail"
    /\ state.previousMode = Null

====
